---- MODULE Spec2Model ----
(***************************************************************************)
(* envsync: versioned secrets synchronised between devices through a       *)
(* revisioned remote store.                                                *)
(*                                                                         *)
(* Spec       - every CLI command (Set/Rotate/Delete/Rollback/Push/Pull),  *)
(*              one at a time, of two devices against one remote.          *)
(* SpecRace   - Pushes of the two devices interleaved between their load   *)
(*              of the remote and their save.                              *)
(* SpecSync   - Set/Push/Pull on an environment of two keys.               *)
(* SpecTeams  - Set/TeamCreate/Push/Pull.                                  *)
(* SpecFile   - the file backend's save, step by step, by two processes.   *)
(* SpecCloud  - the cloud server's PUT on its two repositories.            *)
(* SpecServer - the self-host server's GET and PUT handlers.               *)
(* SpecRestore, SpecCrypto, SpecRollback, SpecRBAC, SpecCloudPush,         *)
(* SpecRetry, SpecStore, SpecOwner, SpecTokens, SpecLimit, SpecAuth,       *)
(* SpecMigrate, SpecStateFile, SpecBucket, SpecAudit, SpecHTTPSave,        *)
(* SpecPut, SpecMembers, SpecSelect, SpecOrg, SpecFrame and SpecVault are  *)
(* introduced further down.                                                *)
(***************************************************************************)
EXTENDS Integers, Sequences, FiniteSets, TLC

\* ------------------------------------------------------------------ bounds
MaxVersion == 2
MaxRevision == 3
MaxHistory == 3
MaxAttempts == 4
MaxClock == 4
MaxRPM == 2
MaxSaves == 2
MaxRequests == 3
MaxEvents == 4

\* ------------------------------------------------------- program constants
defaultEnv == "dev"
roleAdmin == "admin"
roleMaintainer == "maintainer"
roleWriter == "writer"
roleReader == "reader"

\* --------------------------------------------------------- model universes
Devices == {"d1", "d2"}
Keys == {"K1", "K2"}
TeamNames == {"core"}
ProjectName == "api"
SortedNames == <<"api", "web">>
ProjectNames == {SortedNames[i] : i \in 1..Len(SortedNames)}
CWD == "/work"
Dirs == {CWD, "/lib"}
Values == {"a"}

VARIABLES
    state, remote, pc, pushRemote, pushForce, result,   \* the CLI's devices and their remote
    file, flock, proc,                                  \* the remote file and the processes saving it
    memData, pgTable, pgLock, creq, accepted,           \* the cloud server's repositories and requests
    srvStore, srvDisk, srvMu, sreq, installed,          \* the self-host server and its requests
    retry,                                              \* one withHTTPRetry call of the remote client
    db, hreq,                                           \* the cloud server's database and handled requests
    limiter,                                            \* the cloud server's rate limiter and its clock
    authz,                                              \* the self-host server's authorization of a request
    srvLimiter,                                         \* the self-host server's token buckets and its clock
    mig,                                                \* a state file and the State loaded from it
    sfile,                                              \* state.json, its temp file and the processes saving
    audit                                               \* the audit log, its rotated files and the clock

syncVars == <<state, remote, pc, pushRemote, pushForce, result>>
fileVars == <<file, flock, proc>>
cloudVars == <<memData, pgTable, pgLock, creq, accepted>>
serverVars == <<srvStore, srvDisk, srvMu, sreq, installed>>
retryVars == <<retry>>
apiVars == <<db, hreq>>
limitVars == <<limiter>>
authVars == <<authz, srvLimiter>>
migVars == <<mig>>
stateFileVars == <<sfile, audit>>
extVars == <<apiVars, limitVars, authVars, migVars, stateFileVars>>
vars == <<syncVars, fileVars, cloudVars, serverVars, retryVars, extVars>>

\* ------------------------------------------------------------ data helpers
EmptyMap == [x \in {} |-> 0]

MapPut(f, k, v) == [x \in (DOMAIN f) \cup {k} |-> IF x = k THEN v ELSE f[x]]

\* SecretVersion without its timestamps (UpdatedAt, ExpiresAt)
SecretVersion(version, nonce, cipher, deleted, rotated, deviceID, plainHash) ==
    [Version |-> version, NonceB64 |-> nonce, CipherB64 |-> cipher,
     Deleted |-> deleted, Rotated |-> rotated,
     DeviceID |-> deviceID, PlainHash |-> plainHash]

\* the zero value of the nonce, ciphertext and hash fields
NoBytes == <<>>

\* the zero SecretRecord (&SecretRecord{})
NewSecretRecord ==
    [CurrentVersion |-> 0, LastSyncedRemoteVersion |-> 0, Versions |-> <<>>]

\* the empty RemoteStore returned when the remote file does not exist
EmptyRemoteStore ==
    [Version |-> 1, Revision |-> 0, SaltB64 |-> "", KeyCheckB64 |-> "",
     Teams |-> EmptyMap, Projects |-> EmptyMap]

\* cloneTeams: a deep copy, which is the same value
cloneTeams(teams) == [t \in DOMAIN teams |-> teams[t]]

\* ---------------------------------------------------------- remote access
loadRemoteFile == remote

\* a validation that compares the salt only
validateRemoteCrypto_SaltOnly(st, rem) ==
    IF rem.SaltB64 = "" /\ rem.KeyCheckB64 = "" THEN TRUE
    ELSE rem.SaltB64 = st.SaltB64

validateRemoteCrypto(st, rem) ==
    IF rem.SaltB64 = "" /\ rem.KeyCheckB64 = "" THEN TRUE
    ELSE ~(rem.SaltB64 # st.SaltB64 \/ rem.KeyCheckB64 # st.KeyCheckB64)

attachCryptoMetadata(st, rem) ==
    [rem EXCEPT !.SaltB64 = st.SaltB64, !.KeyCheckB64 = st.KeyCheckB64]

\* --------------------------------------------------------- state accessors
\* currentProject/currentEnv resolve to the selected project and environment
HasCurrentEnv(st) ==
    /\ st.CurrentProject \in DOMAIN st.Projects
    /\ st.CurrentEnv \in DOMAIN st.Projects[st.CurrentProject].Envs

currentEnv(st) == st.Projects[st.CurrentProject].Envs[st.CurrentEnv]

WithVars(st, newVars) ==
    [st EXCEPT !.Projects[st.CurrentProject].Envs[st.CurrentEnv].Vars = newVars]

\* a device whose config directory holds no state file
NoState ==
    [SaltB64 |-> "", KeyCheckB64 |-> "",
     CurrentTeam |-> "", CurrentProject |-> "", CurrentEnv |-> "",
     ProjectBindings |-> EmptyMap,
     Teams |-> EmptyMap, Projects |-> EmptyMap]

\* os.Stat(a.StatePath) succeeds
stateExists(st) == st # NoState

\* ------------------------------------------------------------------- rbac
\* actorID with ENVSYNC_ACTOR unset: the device's id
actorID(d) == d

\* teamRole: "" for no team name, for an unknown team (an error there) and for
\* an actor who is not a member
teamRole(st, teamName, actor) ==
    IF teamName = "" \/ teamName \notin DOMAIN st.Teams THEN ""
    ELSE IF actor \in DOMAIN st.Teams[teamName] THEN st.Teams[teamName][actor]
    ELSE ""

\* a comparison of roles that takes writer and maintainer for different roles
canonicalRole_Literal(role) == role

canonicalRole(role) == IF role = roleWriter THEN roleMaintainer ELSE role

hasRole(st, teamName, actor, allowed) ==
    LET role == teamRole(st, teamName, actor)
    IN  /\ role # ""
        /\ \/ canonicalRole(role) = roleAdmin
           \/ \E a \in allowed : canonicalRole(a) = canonicalRole(role)

\* a project without an owning team grants every operation
requireProjectRole(st, project, actor, allowed) ==
    project.Team = "" \/ hasRole(st, project.Team, actor, allowed)

\* the allowed lists the commands pass
AdminOnly == {roleAdmin}
WriterUp == {roleAdmin, roleWriter}
ReaderUp == {roleAdmin, roleWriter, roleReader}

\* device d may run a command of the current project that takes allowed
Permitted(d, allowed) ==
    requireProjectRole(state[d], state[d].Projects[state[d].CurrentProject], actorID(d), allowed)

\* ------------------------------------------------------------------- Init
\* d1 ran init, project create api, push; d2 ran restore from that remote.
InitState ==
    [SaltB64 |-> "salt1", KeyCheckB64 |-> "check1",
     CurrentTeam |-> "", CurrentProject |-> ProjectName, CurrentEnv |-> defaultEnv,
     ProjectBindings |-> EmptyMap,
     Teams |-> EmptyMap,
     Projects |-> [p \in {ProjectName} |->
        [Team |-> "", Envs |-> [e \in {defaultEnv} |-> [Vars |-> EmptyMap]]]]]

\* what the command printed and returned; afterPush tells that a Pull was
\* run right after a successful Push of the same device
Done(op, d, err, keys, flag) ==
    result' = [op |-> op, dev |-> d, err |-> err, keys |-> keys, flag |-> flag,
               afterPush |-> /\ op = "pull"
                             /\ result.op = "push" /\ result.err = "" /\ result.dev = d]

\* ------------------------------------------------------------------ crypto
\* the recovery phrases a user may type
Phrases == {"phrase1", "phrase2"}

\* deriveKey: the key is a function of the phrase and the salt
deriveKey(phrase, salt) == <<phrase, salt>>

\* keyCheck, base64: an HMAC of the key, different for different keys; the
\* devices' states were initialised from phrase1 with salt1
keyCheck(key) ==
    IF key = <<"phrase1", "salt1">> THEN "check1"
    ELSE IF key = <<"phrase2", "salt2">> THEN "check2"
    ELSE IF key = <<"phrase1", "salt2">> THEN "check3"
    ELSE "check4"

\* getSecretKey for a user who types the phrase the state was made with: the
\* key derived from it and the state's salt passes the key-check
getSecretKey(st) ==
    CHOOSE key \in {deriveKey(ph, st.SaltB64) : ph \in Phrases} : keyCheck(key) = st.KeyCheckB64

\* rand.Read(nonce): a nonce no other write has, named after the write
randomNonce(d, version) == <<d, version>>

sha256(plaintext) == <<"sha256", plaintext>>

\* encrypt: the AES-GCM sealing of the plaintext under key and nonce, and the
\* hash of the plaintext
encrypt(key, plaintext, nonce) ==
    [ct |-> <<key, nonce, plaintext>>, nonce |-> nonce, hash |-> sha256(plaintext)]

\* decrypt: gcm.Open gives the plaintext back iff the key and the nonce are
\* the ones the ciphertext was sealed with
decrypt(key, v) ==
    IF v.CipherB64 # NoBytes /\ v.CipherB64[1] = key /\ v.CipherB64[2] = v.NonceB64
    THEN [err |-> "", value |-> v.CipherB64[3]]
    ELSE [err |-> "cipher: message authentication failed", value |-> ""]

\* the command returned the error of requireProjectRole
Unauthorized(op, d) == Done(op, d, "insufficient permissions", {}, FALSE)

\* --------------------------------------------------------- local mutations
\* the SecretVersion writeSecretVersion appends
encryptedVersion(d, next, value, rotated) ==
    LET sealed == encrypt(getSecretKey(state[d]), value, randomNonce(d, next))
    IN  SecretVersion(next, sealed.nonce, sealed.ct, FALSE, rotated, d, sealed.hash)

\* a write that appends the version and leaves CurrentVersion as it was
writeSecretVersion_KeepCurrent(rec, d, value, rotated) ==
    LET next == rec.CurrentVersion + 1
    IN  [rec EXCEPT !.Versions = Append(@, encryptedVersion(d, next, value, rotated))]

\* a write that keeps only the version it stores
writeSecretVersion_InPlace(rec, d, value, rotated) ==
    LET next == rec.CurrentVersion + 1
    IN  [rec EXCEPT !.CurrentVersion = next,
                    !.Versions = <<encryptedVersion(d, next, value, rotated)>>]

\* writeSecretVersion: append version CurrentVersion+1 holding the new value
writeSecretVersion(rec, d, value, rotated) ==
    LET next == rec.CurrentVersion + 1
    IN  [rec EXCEPT !.CurrentVersion = next,
                    !.Versions = Append(@, encryptedVersion(d, next, value, rotated))]

LocalVars(d) == currentEnv(state[d]).Vars

\* the device runs no other command and its current project and environment
\* resolve
CanWrite(d) ==
    /\ pc[d] = "idle"
    /\ HasCurrentEnv(state[d])

\* Set on a record of fewer than cap versions
SetUpTo(d, k, value, cap) ==
    /\ CanWrite(d)
    /\ IF ~Permitted(d, WriterUp)
       THEN /\ Unauthorized("set", d)
            /\ UNCHANGED state
       ELSE LET rec == IF k \in DOMAIN LocalVars(d) THEN LocalVars(d)[k] ELSE NewSecretRecord
            IN  /\ rec.CurrentVersion < cap
                /\ state' = [state EXCEPT ![d] =
                       WithVars(@, MapPut(LocalVars(d), k, writeSecretVersion(rec, d, value, FALSE)))]
                /\ Done("set", d, "", {}, FALSE)
    /\ UNCHANGED <<remote, pc, pushRemote, pushForce>>
    /\ UNCHANGED <<fileVars, cloudVars, serverVars, retryVars, extVars>>

Set(d, k, value) == SetUpTo(d, k, value, MaxVersion)

\* Rotate on a record of fewer than cap versions
RotateUpTo(d, k, value, cap) ==
    /\ CanWrite(d)
    /\ IF ~Permitted(d, WriterUp)
       THEN /\ Unauthorized("rotate", d)
            /\ UNCHANGED state
       ELSE IF k \notin DOMAIN LocalVars(d)
       THEN /\ Done("rotate", d, "not found", {}, FALSE)
            /\ UNCHANGED state
       ELSE /\ LocalVars(d)[k].CurrentVersion < cap
            /\ state' = [state EXCEPT ![d] =
                   WithVars(@, MapPut(LocalVars(d), k,
                                      writeSecretVersion(LocalVars(d)[k], d, value, TRUE)))]
            /\ Done("rotate", d, "", {}, FALSE)
    /\ UNCHANGED <<remote, pc, pushRemote, pushForce>>
    /\ UNCHANGED <<fileVars, cloudVars, serverVars, retryVars, extVars>>

Rotate(d, k, value) == RotateUpTo(d, k, value, MaxVersion)

\* Delete on a record of fewer than cap versions
DeleteUpTo(d, k, cap) ==
    /\ CanWrite(d)
    /\ IF ~Permitted(d, WriterUp)
       THEN /\ Unauthorized("delete", d)
            /\ UNCHANGED state
       ELSE IF k \notin DOMAIN LocalVars(d)
       THEN /\ Done("delete", d, "not found", {}, FALSE)
            /\ UNCHANGED state
       ELSE LET rec == LocalVars(d)[k]
                next == rec.CurrentVersion + 1
            IN  /\ rec.CurrentVersion < cap
                /\ state' = [state EXCEPT ![d] =
                       WithVars(@, MapPut(LocalVars(d), k,
                          [rec EXCEPT !.CurrentVersion = next,
                                      !.Versions = Append(@, SecretVersion(next, NoBytes, NoBytes, TRUE, FALSE, d, NoBytes))]))]
                /\ Done("delete", d, "", {}, FALSE)
    /\ UNCHANGED <<remote, pc, pushRemote, pushForce>>
    /\ UNCHANGED <<fileVars, cloudVars, serverVars, retryVars, extVars>>

Delete(d, k) == DeleteUpTo(d, k, MaxVersion)

\* a Rollback that copies the newest version
rollbackTarget_Newest(rec, version) ==
    rec.Versions[Len(rec.Versions)]

\* the first version of the history numbered version
rollbackTarget(rec, version) ==
    rec.Versions[CHOOSE i \in 1..Len(rec.Versions) :
                    /\ rec.Versions[i].Version = version
                    /\ \A j \in 1..(i - 1) : rec.Versions[j].Version # version]

\* Rollback on a record of fewer than cap versions
RollbackUpTo(d, k, version, cap) ==
    /\ CanWrite(d)
    /\ IF ~Permitted(d, WriterUp)
       THEN /\ Unauthorized("rollback", d)
            /\ UNCHANGED state
       ELSE IF k \notin DOMAIN LocalVars(d)
       THEN /\ Done("rollback", d, "not found", {}, FALSE)
            /\ UNCHANGED state
       ELSE LET rec == LocalVars(d)[k]
                hits == {i \in 1..Len(rec.Versions) : rec.Versions[i].Version = version}
            IN  IF hits = {}
                THEN /\ Done("rollback", d, "version not found", {}, FALSE)
                     /\ UNCHANGED state
                ELSE LET target == rollbackTarget(rec, version)
                         next == rec.CurrentVersion + 1
                     IN  /\ rec.CurrentVersion < cap
                         /\ state' = [state EXCEPT ![d] =
                                WithVars(@, MapPut(LocalVars(d), k,
                                   [rec EXCEPT !.CurrentVersion = next,
                                               !.Versions = Append(@,
                                                   SecretVersion(next, target.NonceB64,
                                                                 target.CipherB64, target.Deleted,
                                                                 FALSE, d, target.PlainHash))]))]
                         /\ Done("rollback", d, "", {}, FALSE)
    /\ UNCHANGED <<remote, pc, pushRemote, pushForce>>
    /\ UNCHANGED <<fileVars, cloudVars, serverVars, retryVars, extVars>>

Rollback(d, k, version) == RollbackUpTo(d, k, version, MaxVersion)

\* Get: what the command prints, or the error it returns
Get(st, keyName) ==
    IF ~HasCurrentEnv(st) THEN [err |-> "not found", value |-> ""]
    ELSE IF keyName \notin DOMAIN currentEnv(st).Vars
            \/ currentEnv(st).Vars[keyName].Versions = <<>>
    THEN [err |-> "not found", value |-> ""]
    ELSE LET rec == currentEnv(st).Vars[keyName]
             v == rec.Versions[Len(rec.Versions)]
         IN  IF v.Deleted THEN [err |-> "is deleted", value |-> ""]
             ELSE decrypt(getSecretKey(st), v)

\* the commands that read the current project and change nothing: Get, List,
\* Load, History, EnvList, Diff, ExportEnv
ReadCommands == {"get", "list", "load", "history", "env list", "diff", "export"}

ReadCommand(d, op) ==
    /\ CanWrite(d)
    /\ IF ~Permitted(d, ReaderUp)
       THEN Unauthorized(op, d)
       ELSE Done(op, d, "", {}, FALSE)
    /\ UNCHANGED <<state, remote, pc, pushRemote, pushForce>>
    /\ UNCHANGED <<fileVars, cloudVars, serverVars, retryVars, extVars>>

\* ProjectCreate: the project gets the default environment and the current
\* team as its owner, which takes a writer or an admin of that team
ProjectCreate(d, name) ==
    /\ pc[d] = "idle"
    /\ stateExists(state[d])
    /\ IF name \in DOMAIN state[d].Projects
       THEN /\ Done("project create", d, "already exists", {}, FALSE)
            /\ UNCHANGED state
       ELSE IF state[d].CurrentTeam # ""
               /\ ~hasRole(state[d], state[d].CurrentTeam, actorID(d), WriterUp)
       THEN /\ Done("project create", d, "writer/admin role required on current team", {}, FALSE)
            /\ UNCHANGED state
       ELSE /\ state' = [state EXCEPT
                   ![d].Projects = MapPut(@, name,
                        [Team |-> state[d].CurrentTeam,
                         Envs |-> [e \in {defaultEnv} |-> [Vars |-> EmptyMap]]]),
                   ![d].CurrentProject = IF @ = "" THEN name ELSE @]
            /\ Done("project create", d, "", {}, FALSE)
    /\ UNCHANGED <<remote, pc, pushRemote, pushForce>>
    /\ UNCHANGED <<fileVars, cloudVars, serverVars, retryVars, extVars>>

\* ProjectUse in the working directory cwd
ProjectUse(d, cwd, name) ==
    /\ pc[d] = "idle"
    /\ stateExists(state[d])
    /\ IF name \notin DOMAIN state[d].Projects
       THEN /\ Done("project use", d, "unknown project", {}, FALSE)
            /\ UNCHANGED state
       ELSE IF ~requireProjectRole(state[d], state[d].Projects[name], actorID(d), ReaderUp)
       THEN /\ Unauthorized("project use", d)
            /\ UNCHANGED state
       ELSE /\ state' = [state EXCEPT ![d].CurrentProject = name,
                                      ![d].ProjectBindings = MapPut(@, cwd, name),
                                      ![d].CurrentEnv = IF @ = "" THEN defaultEnv ELSE @]
            /\ Done("project use", d, "", {}, FALSE)
    /\ UNCHANGED <<remote, pc, pushRemote, pushForce>>
    /\ UNCHANGED <<fileVars, cloudVars, serverVars, retryVars, extVars>>

ProjectDelete(d, name) ==
    /\ pc[d] = "idle"
    /\ stateExists(state[d])
    /\ IF name \notin DOMAIN state[d].Projects
       THEN /\ Done("project delete", d, "unknown project", {}, FALSE)
            /\ UNCHANGED state
       ELSE IF ~requireProjectRole(state[d], state[d].Projects[name], actorID(d), AdminOnly)
       THEN /\ Unauthorized("project delete", d)
            /\ UNCHANGED state
       ELSE /\ state' = [state EXCEPT
                   ![d].Projects = [p \in (DOMAIN @) \ {name} |-> @[p]],
                   ![d].ProjectBindings = [c \in {k \in DOMAIN @ : @[k] # name} |-> @[c]],
                   ![d].CurrentProject = IF @ = name THEN "" ELSE @]
            /\ Done("project delete", d, "", {}, FALSE)
    /\ UNCHANGED <<remote, pc, pushRemote, pushForce>>
    /\ UNCHANGED <<fileVars, cloudVars, serverVars, retryVars, extVars>>

EnvCreate(d, name) ==
    /\ pc[d] = "idle"
    /\ state[d].CurrentProject \in DOMAIN state[d].Projects
    /\ IF ~Permitted(d, WriterUp)
       THEN /\ Unauthorized("env create", d)
            /\ UNCHANGED state
       ELSE IF name \in DOMAIN state[d].Projects[state[d].CurrentProject].Envs
       THEN /\ Done("env create", d, "already exists", {}, FALSE)
            /\ UNCHANGED state
       ELSE /\ state' = [state EXCEPT ![d].Projects[state[d].CurrentProject].Envs =
                            MapPut(@, name, [Vars |-> EmptyMap])]
            /\ Done("env create", d, "", {}, FALSE)
    /\ UNCHANGED <<remote, pc, pushRemote, pushForce>>
    /\ UNCHANGED <<fileVars, cloudVars, serverVars, retryVars, extVars>>

EnvUse(d, name) ==
    /\ pc[d] = "idle"
    /\ state[d].CurrentProject \in DOMAIN state[d].Projects
    /\ IF ~Permitted(d, ReaderUp)
       THEN /\ Unauthorized("env use", d)
            /\ UNCHANGED state
       ELSE IF name \notin DOMAIN state[d].Projects[state[d].CurrentProject].Envs
       THEN /\ Done("env use", d, "unknown environment", {}, FALSE)
            /\ UNCHANGED state
       ELSE /\ state' = [state EXCEPT ![d].CurrentEnv = name]
            /\ Done("env use", d, "", {}, FALSE)
    /\ UNCHANGED <<remote, pc, pushRemote, pushForce>>
    /\ UNCHANGED <<fileVars, cloudVars, serverVars, retryVars, extVars>>

TeamAddMember(d, teamName, actor, role) ==
    /\ pc[d] = "idle"
    /\ stateExists(state[d])
    /\ IF teamName \notin DOMAIN state[d].Teams
       THEN /\ Done("team add-member", d, "unknown team", {}, FALSE)
            /\ UNCHANGED state
       ELSE IF ~hasRole(state[d], teamName, actorID(d), AdminOnly)
       THEN /\ Done("team add-member", d, "team admin role required", {}, FALSE)
            /\ UNCHANGED state
       ELSE /\ state' = [state EXCEPT ![d].Teams[teamName] = MapPut(@, actor, role)]
            /\ Done("team add-member", d, "", {}, FALSE)
    /\ UNCHANGED <<remote, pc, pushRemote, pushForce>>
    /\ UNCHANGED <<fileVars, cloudVars, serverVars, retryVars, extVars>>

TeamRemoveMember(d, teamName, actor) ==
    /\ pc[d] = "idle"
    /\ stateExists(state[d])
    /\ IF teamName \notin DOMAIN state[d].Teams
       THEN /\ Done("team remove-member", d, "unknown team", {}, FALSE)
            /\ UNCHANGED state
       ELSE IF ~hasRole(state[d], teamName, actorID(d), AdminOnly)
       THEN /\ Done("team remove-member", d, "team admin role required", {}, FALSE)
            /\ UNCHANGED state
       ELSE IF actor \notin DOMAIN state[d].Teams[teamName]
       THEN /\ Done("team remove-member", d, "member not found", {}, FALSE)
            /\ UNCHANGED state
       ELSE IF actor = actorID(d)
       THEN /\ Done("team remove-member", d, "cannot remove yourself", {}, FALSE)
            /\ UNCHANGED state
       ELSE /\ state' = [state EXCEPT ![d].Teams[teamName] =
                            [m \in (DOMAIN @) \ {actor} |-> @[m]]]
            /\ Done("team remove-member", d, "", {}, FALSE)
    /\ UNCHANGED <<remote, pc, pushRemote, pushForce>>
    /\ UNCHANGED <<fileVars, cloudVars, serverVars, retryVars, extVars>>

TeamCreate(d, name) ==
    /\ pc[d] = "idle"
    /\ IF name \in DOMAIN state[d].Teams
       THEN /\ Done("team create", d, "already exists", {}, FALSE)
            /\ UNCHANGED state
       ELSE /\ state' = [state EXCEPT
                   ![d].Teams = MapPut(@, name, [m \in {d} |-> roleAdmin]),
                   ![d].CurrentTeam = IF @ = "" THEN name ELSE @]
            /\ Done("team create", d, "", {}, FALSE)
    /\ UNCHANGED <<remote, pc, pushRemote, pushForce>>
    /\ UNCHANGED <<fileVars, cloudVars, serverVars, retryVars, extVars>>

\* ------------------------------------------------------------ sync engine
\* remote CurrentVersion of key k, 0 when the remote has no record
remoteCurrent(remoteVars, k) ==
    IF k \in DOMAIN remoteVars THEN remoteVars[k].CurrentVersion ELSE 0

\* a conflict test that looks at the remote side only
isConflict_RemoteOnly(rc, localRec) ==
    rc > localRec.LastSyncedRemoteVersion

\* both sides moved since the last sync
isConflict(rc, localRec) ==
    rc > localRec.LastSyncedRemoteVersion
    /\ localRec.CurrentVersion > localRec.LastSyncedRemoteVersion

\* the Vars of project/env in a RemoteStore, empty when either is absent
RemoteVars(rem, projName, envName) ==
    IF projName \in DOMAIN rem.Projects /\ envName \in DOMAIN rem.Projects[projName].Envs
    THEN rem.Projects[projName].Envs[envName].Vars
    ELSE EmptyMap

pushConflicts(localVars, remoteVars) ==
    {k \in DOMAIN localVars : isConflict(remoteCurrent(remoteVars, k), localVars[k])}

\* a copy rule that ignores which side is ahead
pushCopied_Always(localVars, remoteVars, force) ==
    {k \in DOMAIN localVars :
        isConflict(remoteCurrent(remoteVars, k), localVars[k]) => force}

\* keys whose local record Push copies to the remote
pushCopied(localVars, remoteVars, force) ==
    {k \in DOMAIN localVars :
        IF isConflict(remoteCurrent(remoteVars, k), localVars[k])
        THEN force
        ELSE localVars[k].CurrentVersion >= remoteCurrent(remoteVars, k)}

\* a Push that uploads every project of the device
pushBuildRemote_WholeState(st, rem, force) ==
    [attachCryptoMetadata(st, rem) EXCEPT !.Teams = cloneTeams(st.Teams),
                                          !.Projects = st.Projects]

\* the RemoteStore Push builds in memory from the loaded one
pushBuildRemote(st, rem, force) ==
    LET projName == st.CurrentProject
        envName == st.CurrentEnv
        localVars == currentEnv(st).Vars
        remoteVars == RemoteVars(rem, projName, envName)
        copied == pushCopied(localVars, remoteVars, force)
        newVars == [k \in (DOMAIN remoteVars) \cup copied |->
                        IF k \in copied THEN localVars[k] ELSE remoteVars[k]]
        proj0 == IF projName \in DOMAIN rem.Projects THEN rem.Projects[projName]
                 ELSE [Team |-> "", Envs |-> EmptyMap]
        proj1 == [proj0 EXCEPT !.Envs = MapPut(@, envName, [Vars |-> newVars])]
        r1 == attachCryptoMetadata(st, rem)
    IN  [r1 EXCEPT !.Teams = cloneTeams(st.Teams),
                   !.Projects = MapPut(@, projName, proj1)]

\* a Push that marks every key as synced with whatever the remote holds
pushBuildState_SyncToRemote(st, rem, force) ==
    LET localVars == currentEnv(st).Vars
        remoteVars == RemoteVars(rem, st.CurrentProject, st.CurrentEnv)
        copied == pushCopied(localVars, remoteVars, force)
    IN  WithVars(st, [k \in DOMAIN localVars |->
            IF k \in copied
            THEN [localVars[k] EXCEPT !.LastSyncedRemoteVersion = localVars[k].CurrentVersion]
            ELSE [localVars[k] EXCEPT !.LastSyncedRemoteVersion = remoteCurrent(remoteVars, k)]])

\* the State Push saves after the remote accepted the store
pushBuildState(st, rem, force) ==
    LET localVars == currentEnv(st).Vars
        remoteVars == RemoteVars(rem, st.CurrentProject, st.CurrentEnv)
        copied == pushCopied(localVars, remoteVars, force)
    IN  WithVars(st, [k \in DOMAIN localVars |->
            IF k \in copied
            THEN [localVars[k] EXCEPT !.LastSyncedRemoteVersion = localVars[k].CurrentVersion]
            ELSE localVars[k]])

\* Push up to the point where the merged store is ready to be saved
PushLoad(d, force) ==
    /\ CanWrite(d)
    /\ remote.Revision < MaxRevision
    /\ LET rem == loadRemoteFile
       IN  IF ~Permitted(d, WriterUp)
           THEN /\ Unauthorized("push", d)
                /\ UNCHANGED <<pc, pushRemote, pushForce>>
           ELSE IF ~validateRemoteCrypto(state[d], rem)
           THEN /\ Done("push", d, "different recovery phrase", {}, force)
                /\ UNCHANGED <<pc, pushRemote, pushForce>>
           ELSE LET conflicts == pushConflicts(LocalVars(d),
                                     RemoteVars(rem, state[d].CurrentProject, state[d].CurrentEnv))
                IN  IF conflicts # {} /\ ~force
                    THEN /\ Done("push", d, "conflicts", conflicts, force)
                         /\ UNCHANGED <<pc, pushRemote, pushForce>>
                    ELSE /\ pc' = [pc EXCEPT ![d] = "push"]
                         /\ pushRemote' = [pushRemote EXCEPT ![d] = rem]
                         /\ pushForce' = [pushForce EXCEPT ![d] = force]
                         /\ Done("push", d, "saving", {}, force)
    /\ UNCHANGED <<state, remote>>
    /\ UNCHANGED <<fileVars, cloudVars, serverVars, retryVars, extVars>>

\* saveRemoteFile without the revision comparison
saveRemoteFile_Unchecked(store, expected) ==
    [ok |-> TRUE, store |-> [store EXCEPT !.Revision = loadRemoteFile.Revision + 1]]

\* saveRemoteFile: compare the revision under the lock, then replace the file
saveRemoteFile(store, expected) ==
    IF loadRemoteFile.Revision # expected
    THEN [ok |-> FALSE, store |-> remote]
    ELSE [ok |-> TRUE, store |-> [store EXCEPT !.Revision = loadRemoteFile.Revision + 1]]

\* the expected revision re-read from the stored remote at save time
expectedRevision_Reread(d) == remote.Revision

\* expectedRevision := remote.Revision, taken from the store Push loaded
expectedRevision(d) == pushRemote[d].Revision

\* Push from saveRemoteStore to its return
PushSave(d) ==
    /\ pc[d] = "push"
    /\ LET saved == saveRemoteFile(pushBuildRemote(state[d], pushRemote[d], pushForce[d]),
                                   expectedRevision(d))
       IN  IF ~saved.ok
           THEN /\ Done("push", d, "remote changed concurrently", {}, pushForce[d])
                /\ UNCHANGED <<state, remote>>
           ELSE /\ remote' = saved.store
                /\ state' = [state EXCEPT ![d] =
                       pushBuildState(@, pushRemote[d], pushForce[d])]
                /\ Done("push", d, "", {}, pushForce[d])
    /\ pc' = [pc EXCEPT ![d] = "idle"]
    /\ pushRemote' = [pushRemote EXCEPT ![d] = EmptyRemoteStore]
    /\ pushForce' = [pushForce EXCEPT ![d] = FALSE]
    /\ UNCHANGED <<fileVars, cloudVars, serverVars, retryVars, extVars>>

\* Push as one step: no other process touches the remote between load and save
Push(d, force) ==
    /\ CanWrite(d)
    /\ remote.Revision < MaxRevision
    /\ LET rem == loadRemoteFile
       IN  IF ~Permitted(d, WriterUp)
           THEN /\ Unauthorized("push", d)
                /\ UNCHANGED <<state, remote>>
           ELSE IF ~validateRemoteCrypto(state[d], rem)
           THEN /\ Done("push", d, "different recovery phrase", {}, force)
                /\ UNCHANGED <<state, remote>>
           ELSE LET conflicts == pushConflicts(LocalVars(d),
                                     RemoteVars(rem, state[d].CurrentProject, state[d].CurrentEnv))
                    saved == saveRemoteFile(pushBuildRemote(state[d], rem, force), rem.Revision)
                IN  IF conflicts # {} /\ ~force
                    THEN /\ Done("push", d, "conflicts", conflicts, force)
                         /\ UNCHANGED <<state, remote>>
                    ELSE IF ~saved.ok
                    THEN /\ Done("push", d, "remote changed concurrently", {}, force)
                         /\ UNCHANGED <<state, remote>>
                    ELSE /\ remote' = saved.store
                         /\ state' = [state EXCEPT ![d] = pushBuildState(@, rem, force)]
                         /\ Done("push", d, "", {}, force)
    /\ UNCHANGED <<pc, pushRemote, pushForce>>
    /\ UNCHANGED <<fileVars, cloudVars, serverVars, retryVars, extVars>>

\* a Pull conflict test that looks at the remote side only
pullConflicts_RemoteOnly(localVars, remoteVars) ==
    {k \in (DOMAIN remoteVars) \cap (DOMAIN localVars) :
        remoteVars[k].CurrentVersion > localVars[k].LastSyncedRemoteVersion}

\* keys present on both sides that moved on both sides since the last sync
pullConflicts(localVars, remoteVars) ==
    {k \in (DOMAIN remoteVars) \cap (DOMAIN localVars) :
        isConflict(remoteVars[k].CurrentVersion, localVars[k])}

\* a Pull that copies only the keys the device already has
pullCopied_KnownOnly(localVars, remoteVars, forceRemote) ==
    {k \in (DOMAIN remoteVars) \cap (DOMAIN localVars) :
        IF isConflict(remoteVars[k].CurrentVersion, localVars[k])
        THEN forceRemote
        ELSE remoteVars[k].CurrentVersion >= localVars[k].CurrentVersion \/ forceRemote}

\* keys whose remote record Pull copies into the local environment
pullCopied(localVars, remoteVars, forceRemote) ==
    {k \in DOMAIN remoteVars :
        \/ k \notin DOMAIN localVars
        \/ IF isConflict(remoteVars[k].CurrentVersion, localVars[k])
           THEN forceRemote
           ELSE remoteVars[k].CurrentVersion >= localVars[k].CurrentVersion \/ forceRemote}

pullBuildState(st, rem, forceRemote) ==
    LET localVars == currentEnv(st).Vars
        remoteVars == RemoteVars(rem, st.CurrentProject, st.CurrentEnv)
        copied == pullCopied(localVars, remoteVars, forceRemote)
        st1 == IF DOMAIN rem.Teams # {} THEN [st EXCEPT !.Teams = cloneTeams(rem.Teams)] ELSE st
    IN  WithVars(st1, [k \in (DOMAIN localVars) \cup copied |->
            IF k \in copied
            THEN [remoteVars[k] EXCEPT !.LastSyncedRemoteVersion = remoteVars[k].CurrentVersion]
            ELSE localVars[k]])

Pull(d, forceRemote) ==
    /\ pc[d] = "idle"
    /\ state[d].CurrentProject \in DOMAIN state[d].Projects
    /\ LET st == IF state[d].CurrentEnv \in DOMAIN state[d].Projects[state[d].CurrentProject].Envs
                 THEN state[d]
                 ELSE [state[d] EXCEPT !.Projects[state[d].CurrentProject].Envs =
                          MapPut(@, state[d].CurrentEnv, [Vars |-> EmptyMap])]
           rem == loadRemoteFile
           projName == st.CurrentProject
           envName == st.CurrentEnv
       IN  IF ~Permitted(d, ReaderUp)
           THEN /\ Unauthorized("pull", d)
                /\ UNCHANGED state
           ELSE IF ~validateRemoteCrypto(st, rem)
           THEN /\ Done("pull", d, "different recovery phrase", {}, forceRemote)
                /\ UNCHANGED state
           ELSE IF projName \notin DOMAIN rem.Projects
                   \/ envName \notin DOMAIN rem.Projects[projName].Envs
           THEN /\ Done("pull", d, "", {}, forceRemote)
                /\ UNCHANGED state
           ELSE LET conflicts == pullConflicts(currentEnv(st).Vars, RemoteVars(rem, projName, envName))
                IN  IF conflicts # {} /\ ~forceRemote
                    THEN /\ Done("pull", d, "conflicts", conflicts, forceRemote)
                         /\ UNCHANGED state
                    ELSE /\ state' = [state EXCEPT ![d] = pullBuildState(st, rem, forceRemote)]
                         /\ Done("pull", d, "", {}, forceRemote)
    /\ UNCHANGED <<remote, pc, pushRemote, pushForce>>
    /\ UNCHANGED <<fileVars, cloudVars, serverVars, retryVars, extVars>>

\* ------------------------------------------------------------------ restore
\* a Restore that keeps the sync marks the remote records carry
markSyncedVersions_Kept(projects) == projects

\* markSyncedVersions: LastSyncedRemoteVersion := CurrentVersion on every record
markSyncedVersions(projects) ==
    [p \in DOMAIN projects |->
        [projects[p] EXCEPT !.Envs =
            [e \in DOMAIN projects[p].Envs |->
                [Vars |-> [k \in DOMAIN projects[p].Envs[e].Vars |->
                    [projects[p].Envs[e].Vars[k] EXCEPT
                        !.LastSyncedRemoteVersion = projects[p].Envs[e].Vars[k].CurrentVersion]]]]]]

\* sort.Strings(names); names[0]
firstProject(names) ==
    IF names = {} THEN ""
    ELSE SortedNames[CHOOSE i \in 1..Len(SortedNames) :
                        /\ SortedNames[i] \in names
                        /\ \A j \in 1..(i - 1) : SortedNames[j] \notin names]

\* the State Restore builds from the remote
restoredState(rem) ==
    [SaltB64 |-> rem.SaltB64, KeyCheckB64 |-> rem.KeyCheckB64,
     CurrentTeam |-> "", CurrentProject |-> firstProject(DOMAIN rem.Projects),
     CurrentEnv |-> defaultEnv,
     ProjectBindings |-> IF DOMAIN rem.Projects # {}
                         THEN [c \in {CWD} |-> firstProject(DOMAIN rem.Projects)]
                         ELSE EmptyMap,
     Teams |-> rem.Teams, Projects |-> markSyncedVersions(rem.Projects)]

Restore(d, phrase) ==
    /\ pc[d] = "idle"
    /\ LET rem == loadRemoteFile
       IN  IF stateExists(state[d])
           THEN /\ Done("restore", d, "state already exists", {}, FALSE)
                /\ UNCHANGED state
           ELSE IF rem.SaltB64 = "" \/ rem.KeyCheckB64 = ""
           THEN /\ Done("restore", d, "no restore metadata", {}, FALSE)
                /\ UNCHANGED state
           ELSE IF rem.KeyCheckB64 # keyCheck(deriveKey(phrase, rem.SaltB64))
           THEN /\ Done("restore", d, "invalid recovery phrase", {}, FALSE)
                /\ UNCHANGED state
           ELSE /\ state' = [state EXCEPT ![d] = restoredState(rem)]
                /\ Done("restore", d, "", {}, FALSE)
    /\ UNCHANGED <<remote, pc, pushRemote, pushForce>>
    /\ UNCHANGED <<fileVars, cloudVars, serverVars, retryVars, extVars>>

\* ------------------------------------------------ cloud server: PUT /v1/store
\* the requests in flight, the vault owners and the projects they address
CloudReqs == {"q1", "q2"}
CloudRepos == {"memory", "postgres"}
Owners == {"u1"}
CloudProjects == {"api"}

\* the users with a uuid, the development user, the OIDC subjects that are no
\* uuid, the organizations and teams, and every owner key they give
CloudUsers == {"u1", "u2", "u3"}
devUser == "dev-user"
OIDCSubjects == {"w1"}
OrgIDs == {"o1"}
TeamIDs == {"t1"}
OwnerIDs ==
    CloudUsers \cup {devUser} \cup OIDCSubjects
        \cup {"org:" \o o : o \in OrgIDs} \cup {"team:" \o t : t \in TeamIDs}

\* memoryRepo: key := ownerID + ":" + project
memKey(ownerID, project) == ownerID \o ":" \o project

\* vault_snapshots: PRIMARY KEY (owner_user_id, project_name)
pgKey(ownerID, project) == <<ownerID, project>>

IdleRequest ==
    [pc |-> "idle", repo |-> "", owner |-> "", project |-> "",
     expectedRevision |-> 0, currentRevision |-> 0, status |-> 0]

\* both repositories empty, no request in flight, nothing accepted so far
CloudInit ==
    /\ memData = [k \in {memKey(o, pr) : o \in OwnerIDs, pr \in CloudProjects} |->
                     [exists |-> FALSE, Revision |-> 0, writer |-> ""]]
    /\ pgTable = [k \in {pgKey(o, pr) : o \in OwnerIDs, pr \in CloudProjects} |->
                     [exists |-> FALSE, revision |-> 0, writer |-> ""]]
    /\ pgLock = [k \in {pgKey(o, pr) : o \in OwnerIDs, pr \in CloudProjects} |-> ""]
    /\ creq = [q \in CloudReqs |-> IdleRequest]
    /\ accepted = [t \in CloudRepos \X OwnerIDs \X CloudProjects \X (0..MaxRevision - 1) |-> 0]

\* one more PUT with If-Match r answered 200 for (owner, project); counted to 2
countAccepted(q) ==
    LET t == <<creq[q].repo, creq[q].owner, creq[q].project, creq[q].expectedRevision>>
    IN  [accepted EXCEPT ![t] = IF @ < 2 THEN @ + 1 ELSE @]

\* handleStore, PUT: authenticated, scope store:write, If-Match parsed, body
\* decoded; s.repo.Put is about to run
PutRequest(q, repo, ownerID, project, ifMatch) ==
    /\ creq[q].pc = "idle"
    /\ creq' = [creq EXCEPT ![q] =
           [pc |-> "put", repo |-> repo, owner |-> ownerID, project |-> project,
            expectedRevision |-> ifMatch, currentRevision |-> 0, status |-> 0]]
    /\ UNCHANGED <<memData, pgTable, pgLock, accepted>>
    /\ UNCHANGED <<syncVars, fileVars, serverVars, retryVars, extVars>>

\* memoryRepo.Put, entirely under m.mu
memoryRepoPut(q) ==
    /\ creq[q].pc = "put"
    /\ creq[q].repo = "memory"
    /\ LET key == memKey(creq[q].owner, creq[q].project)
           current == IF memData[key].exists THEN memData[key].Revision ELSE 0
       IN  IF current # creq[q].expectedRevision
           THEN /\ creq' = [creq EXCEPT ![q].pc = "done", ![q].status = 409,
                                        ![q].currentRevision = current]
                /\ UNCHANGED <<memData, accepted>>
           ELSE /\ memData' = [memData EXCEPT ![key] =
                       [exists |-> TRUE, Revision |-> current + 1, writer |-> q]]
                /\ creq' = [creq EXCEPT ![q].pc = "done", ![q].status = 200,
                                        ![q].currentRevision = current]
                /\ accepted' = countAccepted(q)
    /\ UNCHANGED <<pgTable, pgLock>>
    /\ UNCHANGED <<syncVars, fileVars, serverVars, retryVars, extVars>>

\* the row of key is not locked (or inserted and uncommitted) by another
\* transaction
rowLockFree(q, key) == pgLock[key] \in {"", q}

\* pgRepo.Put: BeginTx, then SELECT revision ... FOR UPDATE. A committed row
\* is locked and read once no other transaction holds it; with no committed
\* row the query returns no rows, locks nothing, and currentRevision = 0
pgSelectForUpdate(q) ==
    /\ creq[q].pc = "put"
    /\ creq[q].repo = "postgres"
    /\ LET key == pgKey(creq[q].owner, creq[q].project)
       IN  IF pgTable[key].exists
           THEN /\ rowLockFree(q, key)
                /\ pgLock' = [pgLock EXCEPT ![key] = q]
                /\ creq' = [creq EXCEPT ![q].pc = "selected",
                                        ![q].currentRevision = pgTable[key].revision]
           ELSE /\ creq' = [creq EXCEPT ![q].pc = "selected", ![q].currentRevision = 0]
                /\ UNCHANGED pgLock
    /\ UNCHANGED <<memData, pgTable, accepted>>
    /\ UNCHANGED <<syncVars, fileVars, serverVars, retryVars, extVars>>

\* currentRevision != expectedRevision: errConflict, the deferred Rollback
\* releases the row
pgCheckRevision(q) ==
    /\ creq[q].pc = "selected"
    /\ LET key == pgKey(creq[q].owner, creq[q].project)
       IN  IF creq[q].currentRevision # creq[q].expectedRevision
           THEN /\ creq' = [creq EXCEPT ![q].pc = "done", ![q].status = 409]
                /\ pgLock' = [pgLock EXCEPT ![key] = IF @ = q THEN "" ELSE @]
           ELSE /\ creq' = [creq EXCEPT ![q].pc = "checked"]
                /\ UNCHANGED pgLock
    /\ UNCHANGED <<memData, pgTable, accepted>>
    /\ UNCHANGED <<syncVars, fileVars, serverVars, retryVars, extVars>>

\* INSERT ... ON CONFLICT (owner_user_id, project_name) DO UPDATE: waits for a
\* transaction that holds the key, then inserts the row or updates the
\* committed one with revision = currentRevision + 1
pgUpsert(q) ==
    /\ creq[q].pc = "checked"
    /\ LET key == pgKey(creq[q].owner, creq[q].project)
       IN  /\ rowLockFree(q, key)
           /\ pgLock' = [pgLock EXCEPT ![key] = q]
    /\ creq' = [creq EXCEPT ![q].pc = "written"]
    /\ UNCHANGED <<memData, pgTable, accepted>>
    /\ UNCHANGED <<syncVars, fileVars, serverVars, retryVars, extVars>>

\* the audit_events insert and tx.Commit: the row becomes visible, the lock is
\* released, handleStore answers 200
pgCommit(q) ==
    /\ creq[q].pc = "written"
    /\ LET key == pgKey(creq[q].owner, creq[q].project)
       IN  /\ pgTable' = [pgTable EXCEPT ![key] =
                  [exists |-> TRUE, revision |-> creq[q].currentRevision + 1, writer |-> q]]
           /\ pgLock' = [pgLock EXCEPT ![key] = ""]
    /\ creq' = [creq EXCEPT ![q].pc = "done", ![q].status = 200]
    /\ accepted' = countAccepted(q)
    /\ UNCHANGED memData
    /\ UNCHANGED <<syncVars, fileVars, serverVars, retryVars, extVars>>

\* the response was written; the client may send its next request
PutResponse(q) ==
    /\ creq[q].pc = "done"
    /\ creq' = [creq EXCEPT ![q] = IdleRequest]
    /\ UNCHANGED <<memData, pgTable, pgLock, accepted>>
    /\ UNCHANGED <<syncVars, fileVars, serverVars, retryVars, extVars>>

\* the device whose CLI sends request q: each device has one request in flight
pusherOf(q) == IF q = "q1" THEN "d1" ELSE "d2"

\* the salt and key-check of the stored payload: the store the writer's device
\* sent, on which Push had run attachCryptoMetadata
storedCrypto(row) ==
    IF row.exists
    THEN [SaltB64 |-> state[pusherOf(row.writer)].SaltB64,
          KeyCheckB64 |-> state[pusherOf(row.writer)].KeyCheckB64]
    ELSE [SaltB64 |-> "", KeyCheckB64 |-> ""]

\* handleStore, GET: repo.Get returns the committed snapshot, or an empty
\* store at revision 0 when there is none
loadRemoteCloud(repo, ownerID, project) ==
    LET row == IF repo = "memory" THEN memData[memKey(ownerID, project)]
               ELSE pgTable[pgKey(ownerID, project)]
        rev == IF ~row.exists THEN 0
               ELSE IF repo = "memory" THEN row.Revision ELSE row.revision
    IN  [EmptyRemoteStore EXCEPT !.Revision = rev,
                                 !.SaltB64 = storedCrypto(row).SaltB64,
                                 !.KeyCheckB64 = storedCrypto(row).KeyCheckB64]

\* Push against the cloud: load the store, validate its recovery metadata,
\* send the PUT with If-Match set to the loaded revision
CloudPush(q, repo, ownerID, project) ==
    LET rem == loadRemoteCloud(repo, ownerID, project)
    IN  /\ rem.Revision < MaxRevision
        /\ validateRemoteCrypto(state[pusherOf(q)], rem)
        /\ PutRequest(q, repo, ownerID, project, rem.Revision)

\* ------------------------------------------------ cloud server: the handlers
patPepper == "pepper"
devToken == [prefix |-> "dev-token", secret |-> ""]
NoToken == [prefix |-> "", secret |-> ""]

\* a bearer token "<prefix>.<secret>"; an OIDC ID token carries its subject
RawToken(prefix, secret) == [prefix |-> prefix, secret |-> secret]
IDToken(sub) == RawToken("oidc", sub)

\* everything up to the first "."
extractTokenPrefix(token) == token.prefix

\* HMAC-SHA256 of the raw token under the pepper
hashToken(pepper, token) == <<"hmac-sha256", pepper, token.prefix, token.secret>>

\* the personal_access_tokens rows (ids k1..k3), of which k3 is issued by
\* POST /v1/tokens, and the raw token generatePAT made for each
TokenIDs == {"k1", "k2", "k3"}
rawTokenOf(id) ==
    CASE id = "k1" -> RawToken("espat_1", "s1")
      [] id = "k2" -> RawToken("espat_2", "s2")
      [] OTHER -> RawToken("espat_3", "s3")

ScopeNames == {"profile:read", "store:read", "store:write", "tokens:write", "*"}

NoTokenRow ==
    [exists |-> FALSE, user_id |-> "", token_prefix |-> "", token_hash |-> <<>>,
     scopes |-> {}, revoked |-> FALSE, expired |-> FALSE, used |-> FALSE]

TokenRow(id, userID, scopes) ==
    [exists |-> TRUE, user_id |-> userID,
     token_prefix |-> extractTokenPrefix(rawTokenOf(id)),
     token_hash |-> hashToken(patPepper, rawTokenOf(id)),
     scopes |-> scopes, revoked |-> FALSE, expired |-> FALSE, used |-> FALSE]

\* the users row of a subject that is no uuid (ensureUserID), and isUUID
userRowOf(subject) == IF subject = devUser THEN "u3" ELSE "u2"
isUUID(v) == v \in CloudUsers \cup TokenIDs

NoMembers ==
    [orgs |-> [m \in CloudUsers \X OrgIDs |-> ""],
     teams |-> [m \in CloudUsers \X TeamIDs |-> ""]]

\* the database: u1 holds token k1 with the given scopes and the given roles
\* in the organization and in the team, u2 holds the all-scopes token k2
Database(scopes, orgRole, teamRole1) ==
    [tokens |-> [id \in TokenIDs |->
                    CASE id = "k1" -> TokenRow("k1", "u1", scopes)
                      [] id = "k2" -> TokenRow("k2", "u2", {"*"})
                      [] OTHER -> NoTokenRow],
     orgs |-> [NoMembers.orgs EXCEPT ![<<"u1", "o1">>] = orgRole],
     teams |-> [NoMembers.teams EXCEPT ![<<"u1", "t1">>] = teamRole1]]

NoRequest ==
    [path |-> "", method |-> "", auth |-> NoToken, organization_id |-> "",
     team_id |-> "", project |-> "", ifMatch |-> "", tokenID |-> "", jsonOK |-> TRUE]

\* what a handler left behind for its request: the request, the error
\* message, the row a GET returned and the token a POST issued
NoHandled == [req |-> NoRequest, message |-> "", served |-> "", issued |-> ""]

ApiInit ==
    /\ db = Database({"*"}, "", "")
    /\ hreq = [q \in CloudReqs |-> NoHandled]

NoPrincipal == [UserID |-> "", All |-> FALSE, Scopes |-> {}, Orgs |-> {}, Teams |-> {}]

loadMemberships(table, userID) ==
    {m \in DOMAIN table : m[1] = userID /\ table[m] # ""}

\* authenticatePAT: nil when PATs are off or no row of the prefix has the
\* token's hash; otherwise the row decides
authenticatePAT(dbv, hasDB, token) ==
    LET prefix == extractTokenPrefix(token)
        hash == hashToken(patPepper, token)
        rows == {id \in TokenIDs : /\ dbv.tokens[id].exists
                                   /\ dbv.tokens[id].token_prefix = prefix
                                   /\ dbv.tokens[id].token_hash = hash}
        none == [p |-> NoPrincipal, err |-> "", tokenID |-> "", found |-> FALSE]
    IN  IF ~hasDB \/ patPepper = "" \/ prefix = "" \/ rows = {} THEN none
        ELSE LET id == CHOOSE k \in rows : TRUE
                 row == dbv.tokens[id]
             IN  IF row.revoked THEN [none EXCEPT !.err = "token is revoked"]
                 ELSE IF row.expired THEN [none EXCEPT !.err = "token is expired"]
                 ELSE [p |-> [UserID |-> row.user_id, All |-> FALSE,
                              Scopes |-> row.scopes,
                              Orgs |-> {<<m[2], dbv.orgs[m]>> :
                                           m \in loadMemberships(dbv.orgs, row.user_id)},
                              Teams |-> {<<m[2], dbv.teams[m]>> :
                                           m \in loadMemberships(dbv.teams, row.user_id)}],
                       err |-> "", tokenID |-> id, found |-> TRUE]

\* the OIDC verifier accepts the ID tokens of the known subjects
oidcVerify(token) == token.prefix = "oidc" /\ token.secret \in OIDCSubjects

\* authenticate: PAT first, then the development token, then OIDC
authenticate(dbv, hasDB, token) ==
    LET pat == authenticatePAT(dbv, hasDB, token)
        all(userID) == [pat EXCEPT !.p = [NoPrincipal EXCEPT !.UserID = userID,
                                                             !.All = TRUE]]
    IN  IF token = NoToken THEN [pat EXCEPT !.err = "missing bearer token"]
        ELSE IF pat.err # "" \/ pat.found THEN pat
        ELSE IF token = devToken THEN all(devUser)
        ELSE IF ~oidcVerify(token) THEN [pat EXCEPT !.err = "invalid token"]
        ELSE all(token.secret)

\* UPDATE personal_access_tokens SET last_used_at = NOW() of authenticatePAT
touchToken(dbv, tokenID) ==
    IF tokenID = "" THEN dbv ELSE [dbv EXCEPT !.tokens[tokenID].used = TRUE]

roleRank(role) ==
    CASE role = "reader" -> 1
      [] role = "maintainer" -> 2
      [] role = "admin" -> 3
      [] OTHER -> 0

roleAllows_AnyMember(role, required) == roleRank(role) >= 1 /\ roleRank(required) > 0

roleAllows(role, required) ==
    roleRank(role) >= roleRank(required) /\ roleRank(required) > 0

resolveOwner(p, orgID, teamID, method) ==
    LET required == IF method = "PUT" THEN "maintainer" ELSE "reader"
        owned(id) == [err |-> "", ownerID |-> id]
    IN  IF orgID # "" /\ teamID # "" THEN [err |-> "bad_request", ownerID |-> ""]
        ELSE IF orgID = "" /\ teamID = "" THEN owned(p.UserID)
        ELSE IF p.All
             THEN IF teamID # "" THEN owned("team:" \o teamID) ELSE owned("org:" \o orgID)
        ELSE IF teamID # ""
             THEN IF \E m \in p.Teams : m[1] = teamID /\ roleAllows(m[2], required)
                  THEN owned("team:" \o teamID)
                  ELSE [err |-> "forbidden", ownerID |-> ""]
        ELSE IF \E m \in p.Orgs : m[1] = orgID /\ roleAllows(m[2], required)
             THEN owned("org:" \o orgID)
             ELSE [err |-> "forbidden", ownerID |-> ""]

hasScope_Any(p, scope) == p.All \/ p.Scopes # {}

hasScope(p, scope) == p.All \/ "*" \in p.Scopes \/ scope \in p.Scopes

\* strings.TrimSpace on the header, environment and query values of the model
TrimSpace(v) ==
    IF v = " " THEN ""
    ELSE IF v = " proxy-secret " THEN "proxy-secret"
    ELSE IF v = " API" THEN "API"
    ELSE v

\* strings.ToLower on the mode and project names of the model
ToLower(v) ==
    IF v = "Token" THEN "token"
    ELSE IF v = "HEADER" THEN "header"
    ELSE IF v = "API" THEN "api"
    ELSE v

\* normalizeProject: trimmed and lowered, "default" for none, and matched
\* against the pattern, which the names of CloudProjects and "default" pass
normalizeProject(raw) ==
    LET lowered == ToLower(TrimSpace(raw))
        project == IF lowered = "" THEN "default" ELSE lowered
    IN  IF project \in CloudProjects \cup {"default"} THEN [err |-> "", project |-> project]
        ELSE [err |-> "invalid_project", project |-> ""]

\* strconv.Atoi on the header values in use
Numerals == ("-1" :> -1) @@ ("0" :> 0) @@ ("1" :> 1) @@ ("2" :> 2) @@ ("3" :> 3) @@ ("4" :> 4)
Atoi(s) == IF s \in DOMAIN Numerals THEN [err |-> FALSE, n |-> Numerals[s]]
           ELSE [err |-> TRUE, n |-> 0]

\* legacyOwnerID: the owner key without its "org:" or "team:" prefix, over
\* the ids a request can name
BareIDs == OrgIDs \cup TeamIDs \cup CloudUsers

legacyOwnerID(ownerID) ==
    CASE \E o \in BareIDs : ownerID = "org:" \o o ->
             CHOOSE o \in BareIDs : ownerID = "org:" \o o
      [] \E t \in BareIDs : ownerID = "team:" \o t ->
             CHOOSE t \in BareIDs : ownerID = "team:" \o t
      [] OTHER -> ""

\* repo.Get: the owner whose committed snapshot is returned, "none" when the
\* empty store at revision 0 is returned
repoGet(repo, ownerID, project) ==
    LET has(o) == IF repo = "memory"
                  THEN memKey(o, project) \in DOMAIN memData /\ memData[memKey(o, project)].exists
                  ELSE pgKey(o, project) \in DOMAIN pgTable /\ pgTable[pgKey(o, project)].exists
    IN  IF has(ownerID) THEN ownerID
        ELSE IF repo = "postgres" /\ legacyOwnerID(ownerID) # "" /\ has(legacyOwnerID(ownerID))
             THEN legacyOwnerID(ownerID)
        ELSE "none"

\* a handler answers request q with status and message without s.repo.Put
Answer(q, req, status, message, served, issued) ==
    /\ creq' = [creq EXCEPT ![q] = [IdleRequest EXCEPT !.pc = "done", !.status = status]]
    /\ hreq' = [hreq EXCEPT ![q] = [req |-> req, message |-> message,
                                    served |-> served, issued |-> issued]]
    /\ UNCHANGED <<memData, pgTable, pgLock, accepted>>

\* handleStore on a server whose repository is repo (PATs need postgres)
handleStore(q, repo, req) ==
    LET a == authenticate(db, repo = "postgres", req.auth)
        o == resolveOwner(a.p, req.organization_id, req.team_id, req.method)
        pr == normalizeProject(req.project)
        match == Atoi(req.ifMatch)
    IN  /\ creq[q].pc = "idle"
        /\ req.path = "/v1/store"
        /\ db' = touchToken(db, a.tokenID)
        /\ IF a.err # "" THEN Answer(q, req, 401, a.err, "", "")
           ELSE IF o.err = "forbidden" THEN Answer(q, req, 403, "access denied", "", "")
           ELSE IF o.err # "" THEN Answer(q, req, 400, o.err, "", "")
           ELSE IF pr.err # "" THEN Answer(q, req, 400, pr.err, "", "")
           ELSE IF req.method = "GET"
                THEN IF ~hasScope(a.p, "store:read")
                     THEN Answer(q, req, 403, "token missing scope store:read", "", "")
                     ELSE Answer(q, req, 200, "", repoGet(repo, o.ownerID, pr.project), "")
           ELSE IF req.method = "PUT"
                THEN IF ~hasScope(a.p, "store:write")
                     THEN Answer(q, req, 403, "token missing scope store:write", "", "")
                     ELSE IF req.ifMatch = ""
                     THEN Answer(q, req, 428, "If-Match required", "", "")
                     ELSE IF match.err
                     THEN Answer(q, req, 400, "invalid If-Match", "", "")
                     ELSE IF ~req.jsonOK
                     THEN Answer(q, req, 400, "invalid JSON payload", "", "")
                     ELSE /\ creq' = [creq EXCEPT ![q] =
                                 [pc |-> "put", repo |-> repo, owner |-> o.ownerID,
                                  project |-> pr.project, expectedRevision |-> match.n,
                                  currentRevision |-> 0, status |-> 0]]
                          /\ hreq' = [hreq EXCEPT ![q] = [NoHandled EXCEPT !.req = req]]
                          /\ UNCHANGED <<memData, pgTable, pgLock, accepted>>
           ELSE Answer(q, req, 405, "method not allowed", "", "")
        /\ UNCHANGED <<syncVars, fileVars, serverVars, retryVars, limitVars, authVars, migVars, stateFileVars>>

\* revokeToken: the casts to uuid fail on an id that is none; the UPDATE
\* matches the caller's own unrevoked row
revokeToken(dbv, userID, tokenID) ==
    IF ~isUUID(tokenID) \/ ~isUUID(userID) THEN [err |-> "error", db |-> dbv]
    ELSE IF /\ tokenID \in TokenIDs
            /\ dbv.tokens[tokenID].exists
            /\ dbv.tokens[tokenID].user_id = userID
            /\ ~dbv.tokens[tokenID].revoked
         THEN [err |-> "", db |-> [dbv EXCEPT !.tokens[tokenID].revoked = TRUE]]
         ELSE [err |-> "ErrNoRows", db |-> dbv]

\* handleTokens with createToken: POST /v1/tokens issues k3 once for the
\* caller's users row, DELETE /v1/tokens/:id revokes
handleTokens(q, repo, req, scopes) ==
    LET a == authenticate(db, repo = "postgres", req.auth)
        used == touchToken(db, a.tokenID)
        userID == IF isUUID(a.p.UserID) THEN a.p.UserID ELSE userRowOf(a.p.UserID)
        revoked == revokeToken(used, a.p.UserID, req.tokenID)
        asked == IF scopes = {} THEN {"profile:read", "store:read", "store:write"}
                 ELSE scopes
    IN  /\ creq[q].pc = "idle"
        /\ req.path \in {"/v1/tokens", "/v1/tokens/"}
        /\ IF a.err # ""
           THEN db' = used /\ Answer(q, req, 401, a.err, "", "")
           ELSE IF ~hasScope(a.p, "tokens:write")
           THEN db' = used /\ Answer(q, req, 403, "token missing scope tokens:write", "", "")
           ELSE IF repo # "postgres"
           THEN db' = used /\ Answer(q, req, 503, "token management requires postgres mode", "", "")
           ELSE IF req.path = "/v1/tokens"
           THEN IF req.method # "POST"
                THEN db' = used /\ Answer(q, req, 405, "method not allowed", "", "")
                ELSE IF ~req.jsonOK
                THEN db' = used /\ Answer(q, req, 400, "invalid JSON payload", "", "")
                ELSE IF ~(asked \subseteq ScopeNames)
                THEN db' = used /\ Answer(q, req, 400, "unsupported scope", "", "")
                ELSE IF used.tokens["k3"].exists
                THEN db' = used /\ Answer(q, req, 500, "failed to issue token", "", "")
                ELSE /\ db' = [used EXCEPT !.tokens["k3"] = TokenRow("k3", userID, asked)]
                     /\ Answer(q, req, 201, "", "", "k3")
           ELSE IF req.method # "DELETE"
           THEN db' = used /\ Answer(q, req, 405, "method not allowed", "", "")
           ELSE IF req.tokenID = ""
           THEN db' = used /\ Answer(q, req, 400, "token id is required", "", "")
           ELSE IF revoked.err = "ErrNoRows"
           THEN db' = used /\ Answer(q, req, 404, "token not found", "", "")
           ELSE IF revoked.err # ""
           THEN db' = used /\ Answer(q, req, 500, "failed to revoke token", "", "")
           ELSE db' = revoked.db /\ Answer(q, req, 204, "", "", "")
        /\ UNCHANGED <<syncVars, fileVars, serverVars, retryVars, limitVars, authVars, migVars, stateFileVars>>

\* handleMe: no scope is asked for
handleMe(q, repo, req) ==
    LET a == authenticate(db, repo = "postgres", req.auth)
    IN  /\ creq[q].pc = "idle"
        /\ req.path = "/v1/me"
        /\ IF req.method # "GET"
           THEN db' = db /\ Answer(q, req, 405, "method not allowed", "", "")
           ELSE IF a.err # ""
           THEN db' = touchToken(db, a.tokenID) /\ Answer(q, req, 401, a.err, "", "")
           ELSE db' = touchToken(db, a.tokenID) /\ Answer(q, req, 200, "", "", "")
        /\ UNCHANGED <<syncVars, fileVars, serverVars, retryVars, limitVars, authVars, migVars, stateFileVars>>

\* the response was written; the client may send its next request
WriteResponse(q) ==
    /\ creq[q].pc = "done"
    /\ creq' = [creq EXCEPT ![q] = IdleRequest]
    /\ hreq' = [hreq EXCEPT ![q] = NoHandled]
    /\ UNCHANGED <<db, memData, pgTable, pgLock, accepted>>
    /\ UNCHANGED <<syncVars, fileVars, serverVars, retryVars, limitVars, authVars, migVars, stateFileVars>>

\* ------------------------------------------- self-host server: /v1/store
ServerReqs == {"r1", "r2", "r3"}

IdleServerRequest ==
    [pc |-> "idle", method |-> "", expected |-> 0, issuedAt |-> 0,
     currentRevision |-> 0, status |-> 0, body |-> [revision |-> 0, writer |-> ""]]

\* server.load on a missing store file: revision 0, written to disk at once
ServerInit ==
    /\ srvStore = [revision |-> 0, writer |-> "load"]
    /\ srvDisk = [revision |-> 0, writer |-> "load"]
    /\ srvMu = [writer |-> "", readers |-> {}]
    /\ sreq = [q \in ServerReqs |-> IdleServerRequest]
    /\ installed = {[revision |-> 0, writer |-> "load"]}

\* handleStore is entered: authorized, and for PUT the body decoded, "projects"
\* present and If-Match parsed into expected
ServeRequest(q, method, ifMatch) ==
    /\ sreq[q].pc = "idle"
    /\ method = "GET" => ifMatch = 0
    /\ sreq' = [sreq EXCEPT ![q] =
           [IdleServerRequest EXCEPT !.pc = "start", !.method = method,
                                     !.expected = ifMatch,
                                     !.issuedAt = srvStore.revision]]
    /\ UNCHANGED <<srvStore, srvDisk, srvMu, installed>>
    /\ UNCHANGED <<syncVars, fileVars, cloudVars, retryVars, extVars>>

\* GET: s.mu.RLock()
GetRLock(q) ==
    /\ sreq[q].pc = "start"
    /\ sreq[q].method = "GET"
    /\ srvMu.writer = ""
    /\ srvMu' = [srvMu EXCEPT !.readers = @ \cup {q}]
    /\ sreq' = [sreq EXCEPT ![q].pc = "rlocked"]
    /\ UNCHANGED <<srvStore, srvDisk, installed>>
    /\ UNCHANGED <<syncVars, fileVars, cloudVars, retryVars, extVars>>

\* GET: json.NewEncoder(w).Encode(s.store)
GetEncode(q) ==
    /\ sreq[q].pc = "rlocked"
    /\ sreq' = [sreq EXCEPT ![q].pc = "encoded", ![q].status = 200, ![q].body = srvStore]
    /\ UNCHANGED <<srvStore, srvDisk, srvMu, installed>>
    /\ UNCHANGED <<syncVars, fileVars, cloudVars, retryVars, extVars>>

\* GET: the deferred s.mu.RUnlock()
GetRUnlock(q) ==
    /\ sreq[q].pc = "encoded"
    /\ srvMu' = [srvMu EXCEPT !.readers = @ \ {q}]
    /\ sreq' = [sreq EXCEPT ![q].pc = "done"]
    /\ UNCHANGED <<srvStore, srvDisk, installed>>
    /\ UNCHANGED <<syncVars, fileVars, cloudVars, retryVars, extVars>>

\* a write lock handed out whoever holds the mutex
muLockFree_Always(q) == TRUE

\* s.mu.Lock() returns once no writer and no reader holds the mutex
muLockFree(q) == srvMu.writer = "" /\ srvMu.readers = {}

\* PUT: s.mu.Lock()
PutLock(q) ==
    /\ sreq[q].pc = "start"
    /\ sreq[q].method = "PUT"
    /\ muLockFree(q)
    /\ srvMu' = [srvMu EXCEPT !.writer = q]
    /\ sreq' = [sreq EXCEPT ![q].pc = "locked"]
    /\ UNCHANGED <<srvStore, srvDisk, installed>>
    /\ UNCHANGED <<syncVars, fileVars, cloudVars, retryVars, extVars>>

\* PUT: currentRevision := asInt(s.store["revision"]), the number the server
\* itself stored there; a mismatch unlocks and answers 409
PutCheck(q) ==
    /\ sreq[q].pc = "locked"
    /\ LET currentRevision == srvStore.revision
       IN  IF currentRevision # sreq[q].expected
           THEN /\ sreq' = [sreq EXCEPT ![q].pc = "done", ![q].status = 409,
                                        ![q].currentRevision = currentRevision]
                /\ srvMu' = [srvMu EXCEPT !.writer = IF @ = q THEN "" ELSE @]
           ELSE /\ sreq' = [sreq EXCEPT ![q].pc = "checked",
                                        ![q].currentRevision = currentRevision]
                /\ UNCHANGED srvMu
    /\ UNCHANGED <<srvStore, srvDisk, installed>>
    /\ UNCHANGED <<syncVars, fileVars, cloudVars, retryVars, extVars>>

\* PUT: next["revision"] = currentRevision + 1; s.store = next
PutInstall(q) ==
    /\ sreq[q].pc = "checked"
    /\ LET next == [revision |-> sreq[q].currentRevision + 1, writer |-> q]
       IN  /\ srvStore' = next
           /\ installed' = installed \cup {next}
    /\ sreq' = [sreq EXCEPT ![q].pc = "installed"]
    /\ UNCHANGED <<srvDisk, srvMu>>
    /\ UNCHANGED <<syncVars, fileVars, cloudVars, retryVars, extVars>>

\* PUT: s.saveLocked() writes the store file
saveLocked(q) ==
    /\ sreq[q].pc = "installed"
    /\ srvDisk' = srvStore
    /\ sreq' = [sreq EXCEPT ![q].pc = "saved"]
    /\ UNCHANGED <<srvStore, srvMu, installed>>
    /\ UNCHANGED <<syncVars, fileVars, cloudVars, retryVars, extVars>>

\* PUT: s.mu.Unlock(); w.WriteHeader(200)
PutUnlock(q) ==
    /\ sreq[q].pc = "saved"
    /\ srvMu' = [srvMu EXCEPT !.writer = IF @ = q THEN "" ELSE @]
    /\ sreq' = [sreq EXCEPT ![q].pc = "done", ![q].status = 200]
    /\ UNCHANGED <<srvStore, srvDisk, installed>>
    /\ UNCHANGED <<syncVars, fileVars, cloudVars, retryVars, extVars>>

\* every response was delivered; the clients send their next requests
NextRound ==
    /\ \A q \in ServerReqs : sreq[q].pc \in {"idle", "done"}
    /\ \E q \in ServerReqs : sreq[q].pc = "done"
    /\ sreq' = [q \in ServerReqs |-> IdleServerRequest]
    /\ UNCHANGED <<srvStore, srvDisk, srvMu, installed>>
    /\ UNCHANGED <<syncVars, fileVars, cloudVars, retryVars, extVars>>

\* ------------------------------------------- file backend, step by step
\* the processes that save the same remote file
Procs == {"p1", "p2"}

\* no remote file yet, the lock free, every process before its load
FileInit ==
    /\ file = [exists |-> FALSE, Revision |-> 0, Writer |-> ""]
    /\ flock = ""
    /\ proc = [p \in Procs |->
                  [pc |-> "idle", loaded |-> 0, current |-> 0, tmp |-> 0, res |-> ""]]

\* the revision loadRemoteFile reads from the file: 0 when the file is missing
fileRevision == IF file.exists THEN file.Revision ELSE 0

\* flock(LOCK_EX) returns at once, whoever holds the lock
flockGranted_Always(p) == TRUE

\* flock(LOCK_EX) on <remote>.lock returns once no other process holds it
flockGranted(p) == flock = ""

\* loadRemoteStore of the command, outside the lock: expectedRevision := Revision
ProcLoad(p) ==
    /\ proc[p].pc = "idle"
    /\ fileRevision < MaxRevision
    /\ proc' = [proc EXCEPT ![p].pc = "loaded", ![p].loaded = fileRevision, ![p].res = ""]
    /\ UNCHANGED <<file, flock>>
    /\ UNCHANGED <<syncVars, cloudVars, serverVars, retryVars, extVars>>

\* saveRemoteFile enters withExclusiveFileLock
AcquireFlock(p) ==
    /\ proc[p].pc = "loaded"
    /\ flockGranted(p)
    /\ flock' = p
    /\ proc' = [proc EXCEPT ![p].pc = "locked"]
    /\ UNCHANGED file
    /\ UNCHANGED <<syncVars, cloudVars, serverVars, retryVars, extVars>>

\* current := loadRemoteFile() inside the lock
ReadCurrent(p) ==
    /\ proc[p].pc = "locked"
    /\ proc' = [proc EXCEPT ![p].pc = "read", ![p].current = fileRevision]
    /\ UNCHANGED <<file, flock>>
    /\ UNCHANGED <<syncVars, cloudVars, serverVars, retryVars, extVars>>

\* current.Revision != expectedRevision: fail; otherwise write the temp file
CheckAndWriteTemp(p) ==
    /\ proc[p].pc = "read"
    /\ IF proc[p].current # proc[p].loaded
       THEN proc' = [proc EXCEPT ![p].pc = "unlock", ![p].res = "remote changed concurrently"]
       ELSE proc' = [proc EXCEPT ![p].pc = "rename", ![p].tmp = proc[p].current + 1]
    /\ UNCHANGED <<file, flock>>
    /\ UNCHANGED <<syncVars, cloudVars, serverVars, retryVars, extVars>>

\* os.Rename(tmpPath, RemotePath)
RenameTemp(p) ==
    /\ proc[p].pc = "rename"
    /\ file' = [exists |-> TRUE, Revision |-> proc[p].tmp, Writer |-> p]
    /\ proc' = [proc EXCEPT ![p].pc = "unlock", ![p].res = "ok"]
    /\ UNCHANGED flock
    /\ UNCHANGED <<syncVars, cloudVars, serverVars, retryVars, extVars>>

\* the deferred flock(LOCK_UN); saveRemoteStore returns
ReleaseFlock(p) ==
    /\ proc[p].pc = "unlock"
    /\ flock' = IF flock = p THEN "" ELSE flock
    /\ proc' = [proc EXCEPT ![p].pc = "done"]
    /\ UNCHANGED file
    /\ UNCHANGED <<syncVars, cloudVars, serverVars, retryVars, extVars>>

\* the process exits; the device runs its next command
ProcExit(p) ==
    /\ proc[p].pc = "done"
    /\ proc' = [proc EXCEPT ![p] = [pc |-> "idle", loaded |-> 0, current |-> 0,
                                    tmp |-> 0, res |-> ""]]
    /\ UNCHANGED <<file, flock>>
    /\ UNCHANGED <<syncVars, cloudVars, serverVars, retryVars, extVars>>

\* ------------------------------------------------ cloud server: rate limit
\* time is counted in ticks of 20 seconds
Minute == 3
ClientIPs == {"10.0.0.1", "10.0.0.2"}
Times == 0..MaxClock

NoRateState == [seen |-> FALSE, windowStart |-> 0, count |-> 0]

\* newRateLimiter(rpm, burst) with no client seen, the clock at 0, no request
\* admitted so far; admitted[ip][t] counts the requests of ip that reached
\* the handler at time t, healthz those of /healthz
RateLimiter(rpm, burst) ==
    [rpm |-> rpm, burst |-> burst, now |-> 0,
     clients |-> [ip \in ClientIPs |-> NoRateState],
     admitted |-> [ip \in ClientIPs |-> [t \in Times |-> 0]],
     last |-> [ip |-> "", path |-> "", status |-> 0, at |-> 0]]

LimitInit == limiter = RateLimiter(0, 0)

\* the first hop of X-Forwarded-For, else the host of RemoteAddr
clientIP(forwardedFor, remoteAddr) ==
    IF forwardedFor # <<>> THEN forwardedFor[1] ELSE remoteAddr

\* rateLimiter.allow: the decision and the client's new rateState
allow(l, ip) ==
    LET st == l.clients[ip]
        limit == l.rpm + l.burst
    IN  IF l.rpm <= 0 THEN [ok |-> TRUE, st |-> st]
        ELSE IF ~st.seen
        THEN [ok |-> TRUE, st |-> [seen |-> TRUE, windowStart |-> l.now, count |-> 1]]
        ELSE IF l.now - st.windowStart >= Minute
        THEN [ok |-> TRUE, st |-> [seen |-> TRUE, windowStart |-> l.now, count |-> 1]]
        ELSE IF st.count >= limit THEN [ok |-> FALSE, st |-> st]
        ELSE [ok |-> TRUE, st |-> [st EXCEPT !.count = @ + 1]]

\* withRateLimit on one request: /healthz goes to the handler at once, any
\* other path when allow lets it
withRateLimit(forwardedFor, remoteAddr, path) ==
    LET ip == clientIP(forwardedFor, remoteAddr)
        a == allow(limiter, ip)
    IN  /\ IF path = "/healthz"
           THEN limiter' = [limiter EXCEPT !.last = [ip |-> ip, path |-> path, status |-> 200, at |-> limiter.now]]
           ELSE IF ~a.ok
           THEN limiter' = [limiter EXCEPT !.last = [ip |-> ip, path |-> path, status |-> 429, at |-> limiter.now]]
           ELSE limiter' = [limiter EXCEPT !.clients[ip] = a.st,
                                           !.admitted[ip][limiter.now] = @ + 1,
                                           !.last = [ip |-> ip, path |-> path, status |-> 200, at |-> limiter.now]]
        /\ UNCHANGED <<syncVars, fileVars, cloudVars, serverVars, retryVars, apiVars,
                       authVars, migVars, stateFileVars>>

\* time passes
ClockTick ==
    /\ limiter.now < MaxClock
    /\ limiter' = [limiter EXCEPT !.now = @ + 1]
    /\ UNCHANGED <<syncVars, fileVars, cloudVars, serverVars, retryVars, apiVars,
                   authVars, migVars, stateFileVars>>

\* ------------------------------------------ self-host server: authorization
authModeFromEnv(rawMode, token) ==
    LET mode == TrimSpace(ToLower(rawMode))
    IN  IF mode \in {"", "auto"}
        THEN IF TrimSpace(token) # "" THEN "token" ELSE "off"
        ELSE IF mode \in {"off", "token", "header", "token_or_header"} THEN mode
        ELSE "off"

authHeaderFromEnv(raw) ==
    LET header == TrimSpace(raw)
    IN  IF header = "" THEN "X-Auth-Request-User" ELSE header

\* an Authorization header value: scheme and credentials, <<>> when absent
NoAuthorization == <<>>
Bearer(token) == <<"Bearer", token>>

\* a request to /v1/store: Header maps a header name to its value, "" when
\* absent; ifMatch is the If-Match header; body tells what the JSON decoder
\* makes of the body: "ok", "invalid json" or "no projects"
ServerRequest(method, authorization, user, secret, ifMatch) ==
    [method |-> method, Authorization |-> authorization,
     Header |-> [h \in {"X-Auth-Request-User", "X-Envsync-Proxy-Secret"} |->
                    IF h = "X-Auth-Request-User" THEN user ELSE secret],
     ifMatch |-> ifMatch, body |-> "ok"]
WithBody(r, body) == [r EXCEPT !.body = body]

\* no request yet
NoServerRequest == ServerRequest("", NoAuthorization, "", "", "")

NoServerResponse == [status |-> 0, message |-> "", body |-> [revision |-> 0, writer |-> ""],
                     served |-> FALSE]

\* the server value main builds from the environment, and the last response
ServerConfig(rawMode, token, rawHeader, rawSecret) ==
    [token |-> token,
     authMode |-> authModeFromEnv(rawMode, token),
     authHeader |-> authHeaderFromEnv(rawHeader),
     authProxySecret |-> TrimSpace(rawSecret),
     req |-> NoServerRequest,
     resp |-> NoServerResponse]

validToken(s, r) ==
    IF s.token = "" THEN FALSE
    ELSE r.Authorization = Bearer(s.token)

validHeaderAuth(s, r) ==
    LET got == TrimSpace(r.Header["X-Envsync-Proxy-Secret"])
    IN  IF s.authProxySecret # "" /\ (got # s.authProxySecret \/ got = "")
        THEN FALSE
        ELSE TrimSpace(r.Header[s.authHeader]) # ""

\* server.authorize: "" for nil, else the error's message
authorize(s, r) ==
    IF s.authMode = "off" THEN ""
    ELSE IF s.authMode = "token" /\ validToken(s, r) THEN ""
    ELSE IF s.authMode = "header" /\ validHeaderAuth(s, r) THEN ""
    ELSE IF s.authMode = "token_or_header" /\ (validToken(s, r) \/ validHeaderAuth(s, r)) THEN ""
    ELSE IF s.authMode \notin {"token", "header", "token_or_header"}
    THEN "server auth misconfigured"
    ELSE "unauthorized"

\* server.handleStore on one request while no other request is in the
\* handler: authorize; GET encodes the store; PUT decodes the body, parses
\* If-Match, compares it with the revision under the lock, installs the next
\* store and saves it, saveOK telling whether saveLocked succeeds
handleStoreBody(r, saveOK) ==
    LET err == authorize(authz, r)
        expected == IF r.ifMatch = "" THEN [err |-> FALSE, n |-> 0] ELSE Atoi(r.ifMatch)
        next == [revision |-> srvStore.revision + 1, writer |-> "auth"]
        Reply(status, message, body, served) ==
            authz' = [authz EXCEPT !.req = r,
                                   !.resp = [status |-> status, message |-> message,
                                             body |-> body, served |-> served]]
    IN  /\ \A q \in ServerReqs : sreq[q].pc \in {"idle", "done"}
        /\ srvStore.revision < MaxRevision
        /\ IF err # ""
           THEN /\ Reply(401, err, NoServerResponse.body, FALSE)
                /\ UNCHANGED <<srvStore, srvDisk, installed>>
           ELSE IF r.method = "GET"
           THEN /\ Reply(200, "", srvStore, TRUE)
                /\ UNCHANGED <<srvStore, srvDisk, installed>>
           ELSE IF r.method # "PUT"
           THEN /\ Reply(405, "method not allowed", NoServerResponse.body, TRUE)
                /\ UNCHANGED <<srvStore, srvDisk, installed>>
           ELSE IF r.body = "invalid json"
           THEN /\ Reply(400, "invalid json", NoServerResponse.body, TRUE)
                /\ UNCHANGED <<srvStore, srvDisk, installed>>
           ELSE IF r.body = "no projects"
           THEN /\ Reply(400, "missing projects", NoServerResponse.body, TRUE)
                /\ UNCHANGED <<srvStore, srvDisk, installed>>
           ELSE IF expected.err
           THEN /\ Reply(400, "invalid If-Match", NoServerResponse.body, TRUE)
                /\ UNCHANGED <<srvStore, srvDisk, installed>>
           ELSE IF srvStore.revision # expected.n
           THEN /\ Reply(409, "revision conflict", NoServerResponse.body, TRUE)
                /\ UNCHANGED <<srvStore, srvDisk, installed>>
           ELSE /\ srvStore' = next
                /\ installed' = installed \cup {next}
                /\ IF saveOK
                   THEN /\ srvDisk' = next
                        /\ Reply(200, "", NoServerResponse.body, TRUE)
                   ELSE /\ UNCHANGED srvDisk
                        /\ Reply(500, "save failed", NoServerResponse.body, TRUE)
        /\ UNCHANGED <<srvMu, sreq>>
        /\ UNCHANGED <<syncVars, fileVars, cloudVars, retryVars, apiVars, limitVars,
                       migVars, stateFileVars>>

\* a request that reaches handleStore with the disk in order
serverHandleStore(r) ==
    /\ handleStoreBody(r, TRUE)
    /\ UNCHANGED srvLimiter

\* ------------------------------------------- self-host server: rate limit
\* time is counted in ticks of 20 seconds and tokens in thirds of a token, so
\* that rpm/60 tokens per second are rpm thirds per tick
TokenUnits == 3
ServerKeys == ClientIPs \cup {"unknown"}
NoBucket == [seen |-> FALSE, tokens |-> 0, last |-> 0]

\* main's limiter: newRateLimiter(rps, float64(max(1, burst))) with rps =
\* rpm/60 when rpm > 0, else 0; the clock, whether the sweeper has run, and
\* the requests the middleware has seen
newRateLimiter(rpm, burst) ==
    LET capacity == (IF burst > 1 THEN burst ELSE 1) * TokenUnits
    IN  [ratePerSec |-> IF rpm > 0 THEN rpm ELSE 0,
         capacity |-> IF capacity <= 0 THEN TokenUnits ELSE capacity,
         buckets |-> [k \in ServerKeys |-> NoBucket],
         now |-> 0, swept |-> FALSE, log |-> <<>>]

enabled(l) == l.ratePerSec > 0

Min(a, b) == IF a < b THEN a ELSE b

Allow_NoRefill(l, key0, now) ==
    LET key == IF key0 = "" THEN "unknown" ELSE key0
        bucket == l.buckets[key]
    IN  IF ~enabled(l) THEN [ok |-> TRUE, buckets |-> l.buckets]
        ELSE IF ~bucket.seen
        THEN [ok |-> TRUE,
              buckets |-> [l.buckets EXCEPT ![key] =
                              [seen |-> TRUE, tokens |-> l.capacity - TokenUnits,
                               last |-> now]]]
        ELSE IF bucket.tokens < TokenUnits
        THEN [ok |-> FALSE, buckets |-> l.buckets]
        ELSE [ok |-> TRUE,
              buckets |-> [l.buckets EXCEPT ![key].tokens = @ - TokenUnits]]

\* rateLimiter.Allow: the decision and the buckets after it
Allow(l, key0, now) ==
    LET key == IF key0 = "" THEN "unknown" ELSE key0
        bucket == l.buckets[key]
        elapsed == now - bucket.last
        refilled == IF elapsed > 0
                    THEN [bucket EXCEPT
                             !.tokens = Min(l.capacity, bucket.tokens + elapsed * l.ratePerSec),
                             !.last = now]
                    ELSE bucket
    IN  IF ~enabled(l) THEN [ok |-> TRUE, buckets |-> l.buckets]
        ELSE IF ~bucket.seen
        THEN [ok |-> TRUE,
              buckets |-> [l.buckets EXCEPT ![key] =
                              [seen |-> TRUE, tokens |-> l.capacity - TokenUnits,
                               last |-> now]]]
        ELSE IF refilled.tokens < TokenUnits
        THEN [ok |-> FALSE, buckets |-> [l.buckets EXCEPT ![key] = refilled]]
        ELSE [ok |-> TRUE,
              buckets |-> [l.buckets EXCEPT ![key] =
                              [refilled EXCEPT !.tokens = @ - TokenUnits]]]

\* server.withMiddleware around the mux: a /v1/store request passes the
\* limiter, when it is enabled, before it reaches handleStore; /healthz is
\* answered by the mux
withMiddleware(r, path, forwardedFor, remoteAddr, saveOK) ==
    LET ip == clientIP(forwardedFor, remoteAddr)
        limited == path = "/v1/store" /\ enabled(srvLimiter)
        a == Allow(srvLimiter, ip, srvLimiter.now)
        Seen(admitted) ==
            Append(srvLimiter.log,
                   [key |-> ip, path |-> path, at |-> srvLimiter.now, admitted |-> admitted])
    IN  /\ Len(srvLimiter.log) < MaxRequests
        /\ IF limited /\ ~a.ok
           THEN /\ srvLimiter' = [srvLimiter EXCEPT !.buckets = a.buckets, !.log = Seen(FALSE)]
                /\ authz' = [authz EXCEPT !.req = r,
                                          !.resp = [status |-> 429,
                                                    message |-> "rate limit exceeded",
                                                    body |-> NoServerResponse.body,
                                                    served |-> FALSE]]
                /\ UNCHANGED <<serverVars>>
                /\ UNCHANGED <<syncVars, fileVars, cloudVars, retryVars, apiVars, limitVars,
                               migVars, stateFileVars>>
           ELSE /\ srvLimiter' = [srvLimiter EXCEPT
                                     !.buckets = IF limited THEN a.buckets ELSE @,
                                     !.log = Seen(TRUE)]
                /\ IF path = "/v1/store"
                   THEN handleStoreBody(r, saveOK)
                   ELSE /\ authz' = [authz EXCEPT !.req = r,
                                                  !.resp = [status |-> 200, message |-> "ok",
                                                            body |-> NoServerResponse.body,
                                                            served |-> TRUE]]
                        /\ UNCHANGED <<serverVars>>
                        /\ UNCHANGED <<syncVars, fileVars, cloudVars, retryVars, apiVars,
                                       limitVars, migVars, stateFileVars>>

\* the sweeper of newRateLimiter wakes up: it runs every 5 minutes, so at most
\* once in the time the clock covers, and deletes the buckets that were idle
\* for more than (capacity / ratePerSec) * 2
SweepBuckets ==
    /\ enabled(srvLimiter)
    /\ ~srvLimiter.swept
    /\ srvLimiter' = [srvLimiter EXCEPT
           !.swept = TRUE,
           !.buckets = [k \in ServerKeys |->
                           IF (srvLimiter.now - @[k].last) * srvLimiter.ratePerSec
                                  > srvLimiter.capacity * 2
                           THEN NoBucket ELSE @[k]]]
    /\ UNCHANGED authz
    /\ UNCHANGED <<syncVars, fileVars, cloudVars, serverVars, retryVars, apiVars,
                   limitVars, migVars, stateFileVars>>

\* time passes on the server
ServerTick ==
    /\ srvLimiter.now < MaxClock
    /\ srvLimiter' = [srvLimiter EXCEPT !.now = @ + 1]
    /\ UNCHANGED authz
    /\ UNCHANGED <<syncVars, fileVars, cloudVars, serverVars, retryVars, apiVars,
                   limitVars, migVars, stateFileVars>>

\* the server without a token, an auth mode or a rate limit in its environment
AuthInit ==
    /\ authz = ServerConfig("", "", "", "")
    /\ srvLimiter = newRateLimiter(0, 0)

\* ------------------------------------------------- state schema migration
currentStateSchemaVersion == 2

\* a Go map: nil, or made with the entries m
NilMap == [nil |-> TRUE, m |-> EmptyMap]
MakeMap(m) == [nil |-> FALSE, m |-> m]

\* *Team, *Env and *Project as decoded from the state file; nil for a JSON null
NilTeam == [nil |-> TRUE, Name |-> "", Members |-> NilMap]
TeamPtr(name, members) == [nil |-> FALSE, Name |-> name, Members |-> members]
NilEnv == [nil |-> TRUE, Name |-> "", Vars |-> NilMap]
EnvPtr(name, vs) == [nil |-> FALSE, Name |-> name, Vars |-> vs]
NilProject == [nil |-> TRUE, Name |-> "", Team |-> "", Envs |-> NilMap]
ProjectPtr(name, team, envs) == [nil |-> FALSE, Name |-> name, Team |-> team, Envs |-> envs]

\* the State json.Unmarshal yields from a state file
DiskState(version, env, bindings, teams, projects) ==
    [Version |-> version, DeviceID |-> "dev1", SaltB64 |-> "salt1",
     KeyCheckB64 |-> "check1", CurrentTeam |-> "", CurrentProject |-> "api",
     CurrentEnv |-> env, ProjectBindings |-> bindings,
     Teams |-> teams, Projects |-> projects]

migrateEnv(env) ==
    IF env.nil THEN [e |-> env, changed |-> FALSE]
    ELSE IF env.Vars.nil
    THEN [e |-> [env EXCEPT !.Vars = MakeMap(EmptyMap)], changed |-> TRUE]
    ELSE [e |-> env, changed |-> FALSE]

migrateProject(project) ==
    IF project.nil THEN [p |-> project, changed |-> FALSE]
    ELSE LET p1 == IF project.Envs.nil
                   THEN [project EXCEPT !.Envs = MakeMap(EmptyMap)] ELSE project
             envs == [n \in DOMAIN p1.Envs.m |-> migrateEnv(p1.Envs.m[n])]
         IN  [p |-> [p1 EXCEPT !.Envs.m = [n \in DOMAIN envs |-> envs[n].e]],
              changed |-> project.Envs.nil \/ \E n \in DOMAIN envs : envs[n].changed]

migrateTeam(team) ==
    IF team.nil THEN [t |-> team, changed |-> FALSE]
    ELSE IF team.Members.nil
    THEN [t |-> [team EXCEPT !.Members = MakeMap(EmptyMap)], changed |-> TRUE]
    ELSE [t |-> team, changed |-> FALSE]

\* F applied to the value of x
Then(x, F(_)) == CHOOSE r \in {F(y) : y \in {x}} : TRUE

\* if state.Version <= 0 { state.Version = 1 }
versionFloor(x) ==
    IF x.state.Version <= 0
    THEN [state |-> [x.state EXCEPT !.Version = 1], changed |-> TRUE]
    ELSE x

\* if state.Version < 2: the default env when it is empty, Version 2
upgradeToV2(x) ==
    IF x.state.Version < 2
    THEN [state |-> [x.state EXCEPT !.CurrentEnv = IF @ = "" THEN defaultEnv ELSE @,
                                    !.Version = 2],
          changed |-> TRUE]
    ELSE x

\* the nil ProjectBindings, Teams and Projects are made, an empty CurrentEnv
\* becomes the default env
makeContainers(x) ==
    [state |-> [x.state EXCEPT
                   !.ProjectBindings = IF @.nil THEN MakeMap(EmptyMap) ELSE @,
                   !.Teams = IF @.nil THEN MakeMap(EmptyMap) ELSE @,
                   !.Projects = IF @.nil THEN MakeMap(EmptyMap) ELSE @,
                   !.CurrentEnv = IF @ = "" THEN defaultEnv ELSE @],
     changed |-> \/ x.changed
                 \/ x.state.ProjectBindings.nil \/ x.state.Teams.nil
                 \/ x.state.Projects.nil \/ x.state.CurrentEnv = ""]

\* the loops over state.Teams and state.Projects
makeNested(x) ==
    LET teams == [n \in DOMAIN x.state.Teams.m |-> migrateTeam(x.state.Teams.m[n])]
        projects == [n \in DOMAIN x.state.Projects.m |->
                        migrateProject(x.state.Projects.m[n])]
    IN  [state |-> [x.state EXCEPT
                       !.Teams.m = [n \in DOMAIN teams |-> teams[n].t],
                       !.Projects.m = [n \in DOMAIN projects |-> projects[n].p]],
         changed |-> \/ x.changed
                     \/ \E n \in DOMAIN teams : teams[n].changed
                     \/ \E n \in DOMAIN projects : projects[n].changed]

\* a newer schema is left alone, an older one set to the current version
settleVersion(x) ==
    IF x.state.Version > currentStateSchemaVersion
    THEN [state |-> x.state, changed |-> x.changed, fromVersion |-> 0,
          toVersion |-> x.state.Version]
    ELSE IF x.state.Version < currentStateSchemaVersion
    THEN [state |-> [x.state EXCEPT !.Version = currentStateSchemaVersion],
          changed |-> TRUE, fromVersion |-> 0,
          toVersion |-> currentStateSchemaVersion]
    ELSE [state |-> x.state, changed |-> x.changed, fromVersion |-> 0,
          toVersion |-> x.state.Version]

migrateStateSchema_VersionOnly(st) ==
    [state |-> [st EXCEPT !.Version = IF @ > currentStateSchemaVersion THEN @
                                      ELSE currentStateSchemaVersion],
     changed |-> st.Version < currentStateSchemaVersion,
     fromVersion |-> st.Version,
     toVersion |-> IF st.Version > currentStateSchemaVersion THEN st.Version
                   ELSE currentStateSchemaVersion]

\* migrateStateSchema on a non-nil state, statement after statement: the
\* migrated state and the three results changed, fromVersion, toVersion
migrateStateSchema(st) ==
    [Then(Then(Then(Then(Then([state |-> st, changed |-> FALSE],
                              versionFloor), upgradeToV2), makeContainers),
               makeNested), settleVersion)
        EXCEPT !.fromVersion = st.Version]

\* the state file's content as decoded, the state in memory, the results of
\* the last migrateStateSchema and how often it was applied
Migration(disk) ==
    [disk |-> disk, state |-> disk, before |-> disk, applied |-> 0,
     changed |-> FALSE, fromVersion |-> 0, toVersion |-> 0]

MigInit == mig = Migration(DiskState(2, "dev", MakeMap(EmptyMap), MakeMap(EmptyMap),
                                     MakeMap(EmptyMap)))

\* App.loadState: json.Unmarshal, then migrateStateSchema on the decoded state
loadState ==
    /\ mig.applied = 0
    /\ LET r == migrateStateSchema(mig.disk)
       IN  mig' = [mig EXCEPT !.state = r.state, !.before = mig.disk, !.applied = 1,
                              !.changed = r.changed, !.fromVersion = r.fromVersion,
                              !.toVersion = r.toVersion]
    /\ UNCHANGED <<syncVars, fileVars, cloudVars, serverVars, retryVars, apiVars,
                   limitVars, authVars, stateFileVars>>

\* migrateStateSchema applied to a state that was migrated already
MigrateAgain ==
    /\ mig.applied = 1
    /\ LET r == migrateStateSchema(mig.state)
       IN  mig' = [mig EXCEPT !.state = r.state, !.before = mig.state, !.applied = 2,
                              !.changed = r.changed, !.fromVersion = r.fromVersion,
                              !.toVersion = r.toVersion]
    /\ UNCHANGED <<syncVars, fileVars, cloudVars, serverVars, retryVars, apiVars,
                   limitVars, authVars, stateFileVars>>

\* ---------------------------------------------------------------- audit log
\* a file of the audit directory: the lines appended to it, each an event
\* number and the bytes of its line, and the time of its last write
NoFile == [exists |-> FALSE, lines |-> <<>>, mtime |-> 0]

RECURSIVE SizeOf(_)
SizeOf(lines) == IF lines = <<>> THEN 0 ELSE Head(lines).bytes + SizeOf(Tail(lines))

\* the names audit.log.1, audit.log.2, ... the model keeps track of
RotatedNames == 1..3

NoRotated == [i \in RotatedNames |-> NoFile]

\* the App's audit settings, the clock a.Now, audit.log and its rotated files,
\* and the number of events logged
AuditDir(maxBytes, maxFiles, maxAge, maxAgeDays) ==
    [AuditMaxBytes |-> maxBytes, AuditMaxFiles |-> maxFiles,
     AuditMaxAge |-> maxAge, AuditMaxAgeDays |-> maxAgeDays,
     now |-> 0, log |-> NoFile, rotated |-> NoRotated, events |-> 0]

DefaultAuditDir == AuditDir(3, 2, 0, 0)

AuditInit == audit = DefaultAuditDir

\* pruneAuditByAge: every audit.log.* last written before the cutoff is removed
pruneAuditByAge(a) ==
    IF a.AuditMaxAgeDays <= 0 THEN a
    ELSE [a EXCEPT !.rotated = [i \in RotatedNames |->
                                   IF @[i].exists /\ @[i].mtime < a.now - a.AuditMaxAgeDays
                                   THEN NoFile ELSE @[i]]]

\* os.Rename(src, dst) among the rotated files: nothing happens without src
renameRotated(rot, src, dst) ==
    IF rot[src].exists THEN [rot EXCEPT ![dst] = rot[src], ![src] = NoFile] ELSE rot

\* for i := limit - 1; i >= 1; i-- { os.Rename(.i, .(i+1)) }
RECURSIVE shiftRotated(_, _)
shiftRotated(rot, i) ==
    IF i < 1 THEN rot ELSE shiftRotated(renameRotated(rot, i, i + 1), i - 1)

rotateAuditIfNeeded_Never(a, nextWriteBytes) == a

\* rotateAuditIfNeeded(nextWriteBytes)
rotateAuditIfNeeded(a, nextWriteBytes) ==
    LET size == SizeOf(a.log.lines)
        rotateBySize == a.AuditMaxBytes > 0 /\ size + nextWriteBytes > a.AuditMaxBytes
        rotateByAge == a.AuditMaxAge > 0 /\ a.now - a.log.mtime >= a.AuditMaxAge /\ size > 0
        limit == IF a.AuditMaxFiles > 1 THEN a.AuditMaxFiles ELSE 1
        removed == [a.rotated EXCEPT ![limit] = NoFile]
        shifted == shiftRotated(removed, limit - 1)
    IN  IF ~a.log.exists THEN a
        ELSE IF ~rotateBySize /\ ~rotateByAge THEN pruneAuditByAge(a)
        ELSE pruneAuditByAge([a EXCEPT !.rotated = [shifted EXCEPT ![1] = a.log],
                                       !.log = NoFile])

\* App.logAudit of one event whose line, newline included, takes bytes bytes:
\* rotate if needed, then append the line to audit.log
logAudit(bytes) ==
    /\ audit.events < MaxEvents
    /\ LET a == rotateAuditIfNeeded(audit, bytes)
           line == [event |-> audit.events + 1, bytes |-> bytes]
       IN  audit' = [a EXCEPT !.log = [exists |-> TRUE, lines |-> Append(a.log.lines, line),
                                       mtime |-> a.now],
                              !.events = @ + 1]
    /\ UNCHANGED sfile
    /\ UNCHANGED <<syncVars, fileVars, cloudVars, serverVars, retryVars, apiVars,
                   limitVars, authVars, migVars>>

\* time passes between two commands
AuditTick ==
    /\ audit.now < MaxClock
    /\ audit' = [audit EXCEPT !.now = @ + 1]
    /\ UNCHANGED sfile
    /\ UNCHANGED <<syncVars, fileVars, cloudVars, serverVars, retryVars, apiVars,
                   limitVars, authVars, migVars>>

\* ------------------------------------------------------ state file, saving
\* the States the commands save, named by what distinguishes them, and the
\* number of blocks json.MarshalIndent yields for each
SavedStates == {"init", "one-secret", "two-secrets"}
Blocks(st) == IF st = "init" THEN 1 ELSE IF st = "one-secret" THEN 2 ELSE 3

\* json.MarshalIndent(state): the document, block by block
MarshalIndent(st) == [i \in 1..Blocks(st) |-> <<st, i>>]

\* a write of b at offset 0 of a file that holds c
WriteAt0(c, b) ==
    IF Len(b) >= Len(c) THEN b ELSE b \o SubSeq(c, Len(b) + 1, Len(c))

Inodes == 1..(1 + 2 * MaxSaves)
NoInode == 0

IdleSave == [pc |-> "idle", b |-> <<>>, fd |-> NoInode, saves |-> 0, err |-> ""]

\* the directory after `envsync init`: state.json is inode 1 and holds the
\* initial State, there is no state.json.tmp, no command is saving
StateFileInit ==
    /\ sfile = [StatePath |-> 1, tmp |-> NoInode,
                inode |-> [n \in Inodes |-> IF n = 1 THEN MarshalIndent("init") ELSE <<>>],
                free |-> 2,
                passed |-> {"init"},
                proc |-> [p \in Procs |-> IdleSave]]
    /\ AuditInit

\* saveState up to the open of os.WriteFile(tmp, b, 0o600): MkdirAll,
\* MarshalIndent, then open(O_WRONLY|O_CREATE|O_TRUNC) of StatePath + ".tmp",
\* which empties the file when it exists and creates it otherwise
saveStateOpen(p, st) ==
    /\ sfile.proc[p].pc = "idle"
    /\ sfile.proc[p].saves < MaxSaves
    /\ LET fd == IF sfile.tmp # NoInode THEN sfile.tmp ELSE sfile.free
       IN  sfile' = [sfile EXCEPT
                        !.tmp = fd,
                        !.inode[fd] = <<>>,
                        !.free = IF sfile.tmp # NoInode THEN @ ELSE @ + 1,
                        !.passed = @ \cup {st},
                        !.proc[p] = [pc |-> "open", b |-> MarshalIndent(st), fd |-> fd,
                                     saves |-> sfile.proc[p].saves + 1, err |-> ""]]
    /\ UNCHANGED <<syncVars, fileVars, cloudVars, serverVars, retryVars, apiVars,
                   limitVars, authVars, migVars, audit>>

\* os.WriteFile: the write of b through the descriptor, and the close
saveStateWrite(p) ==
    /\ sfile.proc[p].pc = "open"
    /\ sfile' = [sfile EXCEPT
                    !.inode[sfile.proc[p].fd] = WriteAt0(@, sfile.proc[p].b),
                    !.proc[p].pc = "written"]
    /\ UNCHANGED <<syncVars, fileVars, cloudVars, serverVars, retryVars, apiVars,
                   limitVars, authVars, migVars, audit>>

\* rename(2) finds the temp file
renameMoves(p) == sfile.tmp # NoInode

\* os.Rename(tmp, a.StatePath): the name state.json is moved to the file the
\* name state.json.tmp stands for; ENOENT when there is no such name
saveStateRename(p) ==
    /\ sfile.proc[p].pc = "written"
    /\ IF renameMoves(p)
       THEN sfile' = [sfile EXCEPT !.StatePath = sfile.tmp, !.tmp = NoInode,
                                   !.proc[p].pc = "idle", !.proc[p].fd = NoInode]
       ELSE sfile' = [sfile EXCEPT !.proc[p].pc = "idle", !.proc[p].fd = NoInode,
                                   !.proc[p].err = "rename: no such file or directory"]
    /\ UNCHANGED <<syncVars, fileVars, cloudVars, serverVars, retryVars, apiVars,
                   limitVars, authVars, migVars, audit>>

ExtInit == ApiInit /\ LimitInit /\ AuthInit /\ MigInit /\ StateFileInit

\* ---------------------------------------------------------- specifications
\* Spec: every command, one at a time, on an environment holding one key
VaultKeys == {"K1"}

\* ------------------------------------------------- remote client: retries
\* durations are counted in ticks of 100ms
defaultRetryMax == 3
defaultRetryBase == 2
defaultRetryMaxD == 20

RECURSIVE Pow2(_)
Pow2(n) == IF n = 0 THEN 1 ELSE 2 * Pow2(n - 1)

\* remoteRetryConfig: the defaults replace values <= 0, maxDelay is raised to
\* base
remoteRetryConfig(a) ==
    LET attempts == IF a.RemoteRetryMax <= 0 THEN defaultRetryMax ELSE a.RemoteRetryMax
        base == IF a.RemoteRetryBase <= 0 THEN defaultRetryBase ELSE a.RemoteRetryBase
        maxD == IF a.RemoteRetryMaxD <= 0 THEN defaultRetryMaxD ELSE a.RemoteRetryMaxD
    IN  [attempts |-> attempts, base |-> base,
         maxDelay |-> IF maxD < base THEN base ELSE maxD]

backoffDelay_Unclamped(base, maxDelay, i) == base * Pow2(i - 1)

\* backoff := base * (1 << (i-1)); if backoff > maxDelay { backoff = maxDelay }
backoffDelay(base, maxDelay, i) ==
    LET backoff == base * Pow2(i - 1)
    IN  IF backoff > maxDelay THEN maxDelay ELSE backoff

\* rand.Int63n(int64(backoff)/2 + 1)
Jitters(backoff) == 0..(backoff \div 2)

\* what one call of op() meets: NewRequest fails ("request"), the client's Do
\* fails with an error that is a net.Error or not ("do"), or a response with
\* a status arrives, whose body decodes or not
Response(kind, code, netErr, decodes) ==
    [kind |-> kind, code |-> code, netErr |-> netErr, decodes |-> decodes]

NoResponse == Response("none", 0, FALSE, FALSE)
StatusOK == 200
Statuses == {StatusOK, 400, 401, 409, 428, 429, 499, 500, 503, 599, 600}

Responses ==
    {Response("request", 0, FALSE, FALSE)}
        \cup {Response("do", 0, n, FALSE) : n \in BOOLEAN}
        \cup {Response("status", c, FALSE, TRUE) : c \in Statuses}
        \cup {Response("status", StatusOK, FALSE, FALSE)}

isRetryableStatus_Any4xx(status) == status >= 400 /\ status <= 599

isRetryableStatus(status) ==
    IF status = 429 THEN TRUE ELSE status >= 500 /\ status <= 599

isRetryableNetworkError(resp) == resp.netErr

\* the (retryable, err) pair the closure of loadRemoteHTTPFromURL and
\* saveRemoteHTTPToURL returns
opFailed(resp) ==
    CASE resp.kind = "request" -> TRUE
      [] resp.kind = "do" -> TRUE
      [] resp.kind = "status" -> resp.code # StatusOK \/ ~resp.decodes
      [] OTHER -> FALSE

opRetryable(resp) ==
    CASE resp.kind = "do" -> isRetryableNetworkError(resp)
      [] resp.kind = "status" /\ resp.code # StatusOK -> isRetryableStatus(resp.code)
      [] OTHER -> FALSE

\* a call of withHTTPRetry at its first iteration
RetryCall(max, base, maxD) ==
    [RemoteRetryMax |-> max, RemoteRetryBase |-> base, RemoteRetryMaxD |-> maxD,
     i |-> 1, calls |-> 0, failures |-> 0, sleeps |-> <<>>, status |-> "loop",
     last |-> NoResponse, err |-> NoResponse]

NoRetry == [RetryCall(0, 0, 0) EXCEPT !.status = "idle"]

RetryInit == retry = NoRetry

\* one iteration of withHTTPRetry's loop whose op() returns a nil error
OpSucceeds ==
    /\ retry.status = "loop"
    /\ \E resp \in Responses :
          /\ ~opFailed(resp)
          /\ retry' = [retry EXCEPT !.calls = @ + 1, !.status = "ok", !.last = resp]
    /\ UNCHANGED <<syncVars, fileVars, cloudVars, serverVars, extVars>>

\* one iteration of withHTTPRetry's loop whose op() returns an error: the
\* error is returned when it is not retryable or the attempts are used up,
\* otherwise the loop sleeps backoff + jitter and goes on
OpFails(resp) ==
    LET cfg == remoteRetryConfig(retry)
        backoff == backoffDelay(cfg.base, cfg.maxDelay, retry.i)
        retryable == opRetryable(resp)
    IN  /\ retry.status = "loop"
        /\ opFailed(resp)
        /\ IF ~retryable \/ retry.i = cfg.attempts
           THEN retry' = [retry EXCEPT !.calls = @ + 1, !.failures = @ + 1,
                                       !.status = "err", !.last = resp,
                                       !.err = resp]
           ELSE \E jitter \in Jitters(backoff) :
                    retry' = [retry EXCEPT !.calls = @ + 1, !.failures = @ + 1,
                                           !.sleeps = Append(@, backoff + jitter),
                                           !.i = @ + 1, !.last = resp]
        /\ UNCHANGED <<syncVars, fileVars, cloudVars, serverVars, extVars>>

\* ------------------------------------- HTTP save against the self-host server
\* strconv.Itoa
Itoa(n) == CHOOSE str \in DOMAIN Numerals : Numerals[str] = n

\* the request saveRemoteHTTPToURL's closure builds at every attempt: PUT
\* /v1/store with the encoded store and If-Match: expectedRevision
putStoreRequest(expected) ==
    ServerRequest("PUT", NoAuthorization, "", "", Itoa(expected))

\* a call saveRemoteHTTPToURL(baseURL, token, remote, expectedRevision) at the
\* first iteration of withHTTPRetry: the revision it sends at every attempt,
\* the number of its requests whose outcome it has seen, and the server's
\* store when the call began
saveRemoteHTTPToURL(max, expected, store) ==
    RetryCall(max, 1, 1)
        @@ [expectedRevision |-> expected, received |-> 0, before |-> store]

\* httpClient().Do fails: the *url.Error it returns is a net.Error
DoFailed == Response("do", 0, TRUE, FALSE)

\* what withHTTPRetry's loop does with the outcome of op()
withHTTPRetry(rt, resp, jitter) ==
    LET cfg == remoteRetryConfig(rt)
        backoff == backoffDelay(cfg.base, cfg.maxDelay, rt.i)
    IN  IF ~opFailed(resp)
        THEN [rt EXCEPT !.calls = @ + 1, !.status = "ok", !.last = resp]
        ELSE IF ~opRetryable(resp) \/ rt.i = cfg.attempts
        THEN [rt EXCEPT !.calls = @ + 1, !.failures = @ + 1, !.status = "err",
                        !.last = resp, !.err = resp]
        ELSE [rt EXCEPT !.calls = @ + 1, !.failures = @ + 1,
                        !.sleeps = Append(@, backoff + jitter), !.i = @ + 1, !.last = resp]

\* the server handles the PUT of the current attempt
ServePut(saveOK) ==
    /\ retry.status = "loop"
    /\ Len(srvLimiter.log) = retry.received
    /\ withMiddleware(putStoreRequest(retry.expectedRevision), "/v1/store",
                      <<>>, "10.0.0.1", saveOK)

\* op() returns: the response reached the client, or Do failed after the
\* server had handled the request (lost)
PutReturns(lost) ==
    LET resp == IF lost THEN DoFailed
                ELSE Response("status", authz.resp.status, FALSE, TRUE)
        backoff == backoffDelay(remoteRetryConfig(retry).base,
                                remoteRetryConfig(retry).maxDelay, retry.i)
    IN  /\ retry.status = "loop"
        /\ Len(srvLimiter.log) = retry.received + 1
        /\ \E jitter \in Jitters(backoff) :
              retry' = [withHTTPRetry(retry, resp, jitter) EXCEPT !.received = @ + 1]
        /\ UNCHANGED <<syncVars, fileVars, cloudVars, serverVars, extVars>>

\* op() returns: Do failed before the request reached the server
PutNotSent ==
    LET backoff == backoffDelay(remoteRetryConfig(retry).base,
                                remoteRetryConfig(retry).maxDelay, retry.i)
    IN  /\ retry.status = "loop"
        /\ Len(srvLimiter.log) = retry.received
        /\ \E jitter \in Jitters(backoff) :
              retry' = withHTTPRetry(retry, DoFailed, jitter)
        /\ UNCHANGED <<syncVars, fileVars, cloudVars, serverVars, extVars>>

\* two initialised devices sharing one recovery phrase, project "api" with its
\* default environment created and pushed, no secret stored yet
Init ==
    /\ state = [d \in Devices |-> InitState]
    /\ remote = [Version |-> 1, Revision |-> 1, SaltB64 |-> "salt1",
                 KeyCheckB64 |-> "check1", Teams |-> EmptyMap,
                 Projects |-> InitState.Projects]
    /\ pc = [d \in Devices |-> "idle"]
    /\ pushRemote = [d \in Devices |-> EmptyRemoteStore]
    /\ pushForce = [d \in Devices |-> FALSE]
    /\ result = [op |-> "init", dev |-> "", err |-> "", keys |-> {}, flag |-> FALSE, afterPush |-> FALSE]
    /\ FileInit
    /\ CloudInit
    /\ ServerInit
    /\ RetryInit
    /\ ExtInit

Next ==
    \/ \E d \in Devices, k \in VaultKeys, v \in Values : Set(d, k, v)
    \/ \E d \in Devices, k \in VaultKeys, v \in Values : Rotate(d, k, v)
    \/ \E d \in Devices, k \in VaultKeys : Delete(d, k)
    \/ \E d \in Devices, k \in VaultKeys, n \in 1..MaxVersion : Rollback(d, k, n)
    \/ \E d \in Devices, f \in BOOLEAN : Push(d, f)
    \/ \E d \in Devices, f \in BOOLEAN : Pull(d, f)

Spec == Init /\ [][Next]_vars

\* SpecRace: the devices' Pushes interleave between their load and their save
NextRace ==
    \/ \E d \in Devices, k \in VaultKeys, v \in Values : Set(d, k, v)
    \/ \E d \in Devices, k \in VaultKeys : Delete(d, k)
    \/ \E d \in Devices, f \in BOOLEAN : PushLoad(d, f)
    \/ \E d \in Devices : PushSave(d)
    \/ \E d \in Devices, f \in BOOLEAN : Pull(d, f)

SpecRace == Init /\ [][NextRace]_vars

\* SpecSync: Set, Push and Pull on an environment holding two keys, started
\* after d1 also ran set K1 before its push (so K1 is synced on both devices)
SyncedRecord(ls) ==
    [CurrentVersion |-> 1, LastSyncedRemoteVersion |-> ls,
     Versions |-> <<SecretVersion(1, randomNonce("d1", 1),
                                  encrypt(getSecretKey(InitState), "a", randomNonce("d1", 1)).ct,
                                  FALSE, FALSE, "d1", sha256("a"))>>]

SyncedProjects(ls) ==
    [p \in {ProjectName} |->
        [Team |-> "", Envs |-> [e \in {defaultEnv} |->
            [Vars |-> [k \in {"K1"} |-> SyncedRecord(ls)]]]]]

InitSynced ==
    /\ state = [d \in Devices |-> [InitState EXCEPT !.Projects = SyncedProjects(1)]]
    /\ remote = [Version |-> 1, Revision |-> 1, SaltB64 |-> "salt1",
                 KeyCheckB64 |-> "check1", Teams |-> EmptyMap,
                 Projects |-> SyncedProjects(0)]
    /\ pc = [d \in Devices |-> "idle"]
    /\ pushRemote = [d \in Devices |-> EmptyRemoteStore]
    /\ pushForce = [d \in Devices |-> FALSE]
    /\ result = [op |-> "init", dev |-> "", err |-> "", keys |-> {}, flag |-> FALSE, afterPush |-> FALSE]
    /\ FileInit
    /\ CloudInit
    /\ ServerInit
    /\ RetryInit
    /\ ExtInit

NextSync ==
    \/ \E d \in Devices, k \in Keys, v \in Values : Set(d, k, v)
    \/ \E d \in Devices, f \in BOOLEAN : Push(d, f)
    \/ \E d \in Devices, f \in BOOLEAN : Pull(d, f)

SpecSync == InitSynced /\ [][NextSync]_vars

\* SpecTeams: Set, TeamCreate, Push and Pull on an environment holding one key
NextTeams ==
    \/ \E d \in Devices, k \in VaultKeys, v \in Values : Set(d, k, v)
    \/ \E d \in Devices, t \in TeamNames : TeamCreate(d, t)
    \/ \E d \in Devices, f \in BOOLEAN : Push(d, f)
    \/ \E d \in Devices, f \in BOOLEAN : Pull(d, f)

SpecTeams == Init /\ [][NextTeams]_vars

\* SpecRestore: d1 is initialised and runs every command, d2 has a fresh
\* config directory and restores, sets, pushes and pulls; the remote is the
\* one d1 pushed, or still empty, or one that lost its key-check
InitRestore ==
    /\ state = [d \in Devices |-> IF d = "d1" THEN InitState ELSE NoState]
    /\ remote \in
         {[Version |-> 1, Revision |-> 1, SaltB64 |-> "salt1", KeyCheckB64 |-> "check1",
           Teams |-> EmptyMap, Projects |-> InitState.Projects],
          EmptyRemoteStore,
          [Version |-> 1, Revision |-> 1, SaltB64 |-> "salt1", KeyCheckB64 |-> "",
           Teams |-> EmptyMap, Projects |-> InitState.Projects]}
    /\ pc = [d \in Devices |-> "idle"]
    /\ pushRemote = [d \in Devices |-> EmptyRemoteStore]
    /\ pushForce = [d \in Devices |-> FALSE]
    /\ result = [op |-> "init", dev |-> "", err |-> "", keys |-> {}, flag |-> FALSE, afterPush |-> FALSE]
    /\ FileInit
    /\ CloudInit
    /\ ServerInit
    /\ RetryInit
    /\ ExtInit

NextRestore ==
    \/ \E d \in Devices, k \in VaultKeys, v \in Values : Set(d, k, v)
    \/ \E k \in VaultKeys, v \in Values : Rotate("d1", k, v)
    \/ \E k \in VaultKeys : Delete("d1", k)
    \/ \E k \in VaultKeys : Rollback("d1", k, 1)
    \/ \E d \in Devices, f \in BOOLEAN : Push(d, f)
    \/ \E d \in Devices, f \in BOOLEAN : Pull(d, f)
    \/ \E d \in Devices, ph \in Phrases : Restore(d, ph)

SpecRestore == InitRestore /\ [][NextRestore]_vars

\* SpecCrypto: d1 and d2 were initialised apart, so each has a salt and a
\* key-check of its own; the remote carries any mix of their values or none
Salts == {"", "salt1", "salt2"}
KeyChecks == {"", "check1", "check2"}

InitCrypto ==
    /\ state = [d \in Devices |->
                  IF d = "d1" THEN InitState
                  ELSE [InitState EXCEPT !.SaltB64 = "salt2", !.KeyCheckB64 = "check2"]]
    /\ \E salt \in Salts, check \in KeyChecks, projects \in {EmptyMap, InitState.Projects} :
          remote = [EmptyRemoteStore EXCEPT !.SaltB64 = salt, !.KeyCheckB64 = check,
                                            !.Projects = projects]
    /\ pc = [d \in Devices |-> "idle"]
    /\ pushRemote = [d \in Devices |-> EmptyRemoteStore]
    /\ pushForce = [d \in Devices |-> FALSE]
    /\ result = [op |-> "init", dev |-> "", err |-> "", keys |-> {}, flag |-> FALSE, afterPush |-> FALSE]
    /\ FileInit
    /\ CloudInit
    /\ ServerInit
    /\ RetryInit
    /\ ExtInit

NextCrypto ==
    \/ \E d \in Devices, k \in VaultKeys, v \in Values : Set(d, k, v)
    \/ \E d \in Devices, f \in BOOLEAN : Push(d, f)
    \/ \E d \in Devices, f \in BOOLEAN : Pull(d, f)

SpecCrypto == InitCrypto /\ [][NextCrypto]_vars

\* SpecRollback: d1 sets, deletes and rolls back a key that takes two
\* plaintexts, over histories of up to MaxHistory versions, while d2 sets the
\* key in its own state
Plaintexts == {"a", "b"}

NextRollback ==
    \/ \E k \in VaultKeys, v \in Plaintexts : SetUpTo("d1", k, v, MaxHistory)
    \/ \E k \in VaultKeys, v \in Values : SetUpTo("d2", k, v, MaxHistory)
    \/ \E k \in VaultKeys : DeleteUpTo("d1", k, MaxHistory)
    \/ \E k \in VaultKeys, n \in 1..MaxHistory + 1 : RollbackUpTo("d1", k, n, MaxHistory)

SpecRollback == Init /\ [][NextRollback]_vars

\* SpecRBAC: the project api is owned by team core; d1 runs every gated
\* command with the role it starts with (or none), and d2 is a member that d1
\* may remove and add again
Roles == {roleAdmin, roleMaintainer, roleWriter, roleReader}
EnvNames == {defaultEnv, "prod"}

TeamProjects ==
    [p \in {ProjectName} |->
        [Team |-> "core", Envs |-> [e \in {defaultEnv} |-> [Vars |-> EmptyMap]]]]

InitRBAC ==
    /\ \E members \in {[m \in {"d2"} |-> roleReader]}
                       \cup {[m \in Devices |-> IF m = "d1" THEN r ELSE roleReader] : r \in Roles} :
          state = [d \in Devices |->
                      [InitState EXCEPT !.Teams = [t \in TeamNames |-> members],
                                        !.CurrentTeam = "core",
                                        !.Projects = TeamProjects]]
    /\ remote = [Version |-> 1, Revision |-> MaxRevision - 1,
                 SaltB64 |-> "salt1", KeyCheckB64 |-> "check1",
                 Teams |-> EmptyMap, Projects |-> TeamProjects]
    /\ pc = [d \in Devices |-> "idle"]
    /\ pushRemote = [d \in Devices |-> EmptyRemoteStore]
    /\ pushForce = [d \in Devices |-> FALSE]
    /\ result = [op |-> "init", dev |-> "", err |-> "", keys |-> {}, flag |-> FALSE, afterPush |-> FALSE]
    /\ FileInit
    /\ CloudInit
    /\ ServerInit
    /\ RetryInit
    /\ ExtInit

NextRBAC ==
    \/ \E k \in VaultKeys, v \in Values : SetUpTo("d1", k, v, 1)
    \/ \E k \in VaultKeys, v \in Values : RotateUpTo("d1", k, v, 2)
    \/ \E k \in VaultKeys : DeleteUpTo("d1", k, 2)
    \/ \E k \in VaultKeys : RollbackUpTo("d1", k, 1, 2)
    \/ Push("d1", FALSE)
    \/ Pull("d1", FALSE)
    \/ \E op \in ReadCommands : ReadCommand("d1", op)
    \/ ProjectUse("d1", CWD, ProjectName)
    \/ ProjectDelete("d1", ProjectName)
    \/ EnvCreate("d1", "prod")
    \/ \E e \in EnvNames : EnvUse("d1", e)
    \/ \E t \in TeamNames : TeamAddMember("d1", t, "d2", roleReader)
    \/ \E t \in TeamNames, m \in Devices : TeamRemoveMember("d1", t, m)

SpecRBAC == InitRBAC /\ [][NextRBAC]_vars

\* SpecFile: two processes save the same remote file
NextFile ==
    \/ \E p \in Procs : ProcLoad(p)
    \/ \E p \in Procs : AcquireFlock(p)
    \/ \E p \in Procs : ReadCurrent(p)
    \/ \E p \in Procs : CheckAndWriteTemp(p)
    \/ \E p \in Procs : RenameTemp(p)
    \/ \E p \in Procs : ReleaseFlock(p)
    \/ \E p \in Procs : ProcExit(p)

SpecFile == Init /\ [][NextFile]_vars

\* SpecCloud: concurrent PUTs against the cloud server's repositories
NextCloud ==
    \/ \E q \in CloudReqs, repo \in CloudRepos, o \in Owners, pr \in CloudProjects,
          r \in 0..MaxRevision - 1 : PutRequest(q, repo, o, pr, r)
    \/ \E q \in CloudReqs : memoryRepoPut(q)
    \/ \E q \in CloudReqs : pgSelectForUpdate(q)
    \/ \E q \in CloudReqs : pgCheckRevision(q)
    \/ \E q \in CloudReqs : pgUpsert(q)
    \/ \E q \in CloudReqs : pgCommit(q)
    \/ \E q \in CloudReqs : PutResponse(q)

SpecCloud == Init /\ [][NextCloud]_vars

\* SpecCloudPush: two devices initialised apart push to the same cloud vault
InitCloudPush ==
    /\ state = [d \in Devices |->
                  IF d = "d1" THEN InitState
                  ELSE [InitState EXCEPT !.SaltB64 = "salt2", !.KeyCheckB64 = "check2"]]
    /\ remote = EmptyRemoteStore
    /\ pc = [d \in Devices |-> "idle"]
    /\ pushRemote = [d \in Devices |-> EmptyRemoteStore]
    /\ pushForce = [d \in Devices |-> FALSE]
    /\ result = [op |-> "init", dev |-> "", err |-> "", keys |-> {}, flag |-> FALSE, afterPush |-> FALSE]
    /\ FileInit
    /\ CloudInit
    /\ ServerInit
    /\ RetryInit
    /\ ExtInit

NextCloudPush ==
    \/ \E q \in CloudReqs, repo \in CloudRepos, o \in Owners, pr \in CloudProjects :
          CloudPush(q, repo, o, pr)
    \/ \E q \in CloudReqs : memoryRepoPut(q)
    \/ \E q \in CloudReqs : pgSelectForUpdate(q)
    \/ \E q \in CloudReqs : pgCheckRevision(q)
    \/ \E q \in CloudReqs : pgUpsert(q)
    \/ \E q \in CloudReqs : pgCommit(q)
    \/ \E q \in CloudReqs : PutResponse(q)

SpecCloudPush == InitCloudPush /\ [][NextCloudPush]_vars

\* SpecServer: concurrent GETs and PUTs against the self-host server
NextServer ==
    \/ \E q \in ServerReqs, m \in {"GET", "PUT"}, r \in 0..MaxRevision - 1 :
          ServeRequest(q, m, r)
    \/ \E q \in ServerReqs : GetRLock(q)
    \/ \E q \in ServerReqs : GetEncode(q)
    \/ \E q \in ServerReqs : GetRUnlock(q)
    \/ \E q \in ServerReqs : PutLock(q)
    \/ \E q \in ServerReqs : PutCheck(q)
    \/ \E q \in ServerReqs : PutInstall(q)
    \/ \E q \in ServerReqs : saveLocked(q)
    \/ \E q \in ServerReqs : PutUnlock(q)
    \/ NextRound

SpecServer == Init /\ [][NextServer]_vars

\* SpecRetry: one withHTTPRetry call under every configuration
RetryMaxes == 0..MaxAttempts
RetryBases == {0, 1, 3}
RetryMaxDs == {0, 1, 2, 4}

InitRetry ==
    /\ state = [d \in Devices |-> InitState]
    /\ remote = [Version |-> 1, Revision |-> 1, SaltB64 |-> "salt1",
                 KeyCheckB64 |-> "check1", Teams |-> EmptyMap,
                 Projects |-> InitState.Projects]
    /\ pc = [d \in Devices |-> "idle"]
    /\ pushRemote = [d \in Devices |-> EmptyRemoteStore]
    /\ pushForce = [d \in Devices |-> FALSE]
    /\ result = [op |-> "init", dev |-> "", err |-> "", keys |-> {}, flag |-> FALSE, afterPush |-> FALSE]
    /\ FileInit
    /\ CloudInit
    /\ ServerInit
    /\ ExtInit
    /\ \E max \in RetryMaxes, base \in RetryBases, maxD \in RetryMaxDs :
          retry = RetryCall(max, base, maxD)

NextRetry ==
    \/ OpSucceeds
    \/ \E resp \in Responses : OpFails(resp)

SpecRetry == InitRetry /\ [][NextRetry]_vars

\* SpecStore: concurrent PUT /v1/store requests of the development user,
\* from the handler's first line to the response
StoreRequest(method, auth, orgID, teamID, ifMatch) ==
    [NoRequest EXCEPT !.path = "/v1/store", !.method = method, !.auth = auth,
                      !.organization_id = orgID, !.team_id = teamID,
                      !.project = "api", !.ifMatch = ifMatch]

IfMatchHeaders == {"", "abc", "0", "1"}

NextStore ==
    \/ \E q \in CloudReqs, repo \in CloudRepos, h \in IfMatchHeaders :
          handleStore(q, repo, StoreRequest("PUT", devToken, "", "", h))
    \/ \E q \in CloudReqs : memoryRepoPut(q)
    \/ \E q \in CloudReqs : pgSelectForUpdate(q)
    \/ \E q \in CloudReqs : pgCheckRevision(q)
    \/ \E q \in CloudReqs : pgUpsert(q)
    \/ \E q \in CloudReqs : pgCommit(q)
    \/ \E q \in CloudReqs : WriteResponse(q)

SpecStore == Init /\ [][NextStore]_vars

\* SpecOwner: GET and PUT /v1/store naming an organization or a team, by u1's
\* token under every role of u1, by the development token and by an OIDC ID
\* token, one request at a time on the Postgres repository
CloudRoles == {"", "reader", "maintainer", "admin"}
OwnerTokens == {NoToken, rawTokenOf("k1"), devToken, IDToken("w1")}

InitOwner ==
    /\ state = [d \in Devices |-> InitState]
    /\ remote = [Version |-> 1, Revision |-> 1, SaltB64 |-> "salt1",
                 KeyCheckB64 |-> "check1", Teams |-> EmptyMap,
                 Projects |-> InitState.Projects]
    /\ pc = [d \in Devices |-> "idle"]
    /\ pushRemote = [d \in Devices |-> EmptyRemoteStore]
    /\ pushForce = [d \in Devices |-> FALSE]
    /\ result = [op |-> "init", dev |-> "", err |-> "", keys |-> {}, flag |-> FALSE, afterPush |-> FALSE]
    /\ FileInit
    /\ CloudInit
    /\ ServerInit
    /\ RetryInit
    /\ LimitInit /\ AuthInit /\ MigInit /\ StateFileInit
    /\ \E orgRole \in CloudRoles, teamRole1 \in CloudRoles :
          db = Database({"*"}, orgRole, teamRole1)
    /\ hreq = [q \in CloudReqs |-> NoHandled]

NextOwner ==
    \/ \E method \in {"GET", "PUT"}, auth \in OwnerTokens,
          orgID \in {""} \cup OrgIDs, teamID \in {""} \cup TeamIDs :
          handleStore("q1", "postgres", StoreRequest(method, auth, orgID, teamID, "0"))
    \/ pgSelectForUpdate("q1")
    \/ pgCheckRevision("q1")
    \/ pgUpsert("q1")
    \/ pgCommit("q1")
    \/ WriteResponse("q1")

SpecOwner == InitOwner /\ [][NextOwner]_vars

\* SpecTokens: every endpoint with u1's token k1 under every scope set, u2's
\* all-scopes token k2 and the development token, one request at a time
ScopeSets == {{}, {"profile:read"}, {"store:read"}, {"store:write"}, {"tokens:write"}, {"*"}}
TokenBearers == {rawTokenOf("k1"), rawTokenOf("k2"), devToken}

TokensRequest(path, method, auth, tokenID) ==
    [NoRequest EXCEPT !.path = path, !.method = method, !.auth = auth,
                      !.tokenID = tokenID]

InitTokens ==
    /\ state = [d \in Devices |-> InitState]
    /\ remote = [Version |-> 1, Revision |-> 1, SaltB64 |-> "salt1",
                 KeyCheckB64 |-> "check1", Teams |-> EmptyMap,
                 Projects |-> InitState.Projects]
    /\ pc = [d \in Devices |-> "idle"]
    /\ pushRemote = [d \in Devices |-> EmptyRemoteStore]
    /\ pushForce = [d \in Devices |-> FALSE]
    /\ result = [op |-> "init", dev |-> "", err |-> "", keys |-> {}, flag |-> FALSE, afterPush |-> FALSE]
    /\ FileInit
    /\ CloudInit
    /\ ServerInit
    /\ RetryInit
    /\ LimitInit /\ AuthInit /\ MigInit /\ StateFileInit
    /\ \E scopes \in ScopeSets : db = Database(scopes, "", "")
    /\ hreq = [q \in CloudReqs |-> NoHandled]

NextTokens ==
    \/ \E method \in {"GET", "PUT"}, auth \in TokenBearers, project \in {"api", "A B"},
          named \in {<<"", "">>, <<"", "t1">>, <<"o1", "t1">>} :
          handleStore("q1", "postgres",
                      [StoreRequest(method, auth, named[1], named[2], "0")
                          EXCEPT !.project = project])
    \/ \E auth \in TokenBearers :
          handleTokens("q1", "postgres", TokensRequest("/v1/tokens", "POST", auth, ""),
                       {"store:write"})
    \/ \E auth \in TokenBearers, id \in {"k1", "k2", "k9"} :
          handleTokens("q1", "postgres", TokensRequest("/v1/tokens/", "DELETE", auth, id), {})
    \/ \E auth \in TokenBearers :
          handleMe("q1", "postgres", TokensRequest("/v1/me", "GET", auth, ""))
    \/ pgSelectForUpdate("q1")
    \/ pgCheckRevision("q1")
    \/ pgUpsert("q1")
    \/ pgCommit("q1")
    \/ WriteResponse("q1")

SpecTokens == InitTokens /\ [][NextTokens]_vars

\* SpecLimit: requests of two clients through withRateLimit while time passes
InitLimit ==
    /\ state = [d \in Devices |-> InitState]
    /\ remote = [Version |-> 1, Revision |-> 1, SaltB64 |-> "salt1",
                 KeyCheckB64 |-> "check1", Teams |-> EmptyMap,
                 Projects |-> InitState.Projects]
    /\ pc = [d \in Devices |-> "idle"]
    /\ pushRemote = [d \in Devices |-> EmptyRemoteStore]
    /\ pushForce = [d \in Devices |-> FALSE]
    /\ result = [op |-> "init", dev |-> "", err |-> "", keys |-> {}, flag |-> FALSE, afterPush |-> FALSE]
    /\ FileInit
    /\ CloudInit
    /\ ServerInit
    /\ RetryInit
    /\ ApiInit /\ AuthInit /\ MigInit /\ StateFileInit
    /\ \E rpm \in 1..MaxRPM, burst \in {0, 1} : limiter = RateLimiter(rpm, burst)

NextLimit ==
    \/ \E f \in {<<>>, <<"10.0.0.2">>}, path \in {"/healthz", "/v1/store"} :
          withRateLimit(f, "10.0.0.1", path)
    \/ ClockTick

SpecLimit == InitLimit /\ [][NextLimit]_vars

\* SpecAuth: requests to /v1/store under every configuration of the auth mode
RawModes == {"", "auto", "off", "Token", "HEADER", "token_or_header", "oidc"}
ServerTokens == {"", "secret"}
RawSecrets == {"", " proxy-secret "}
AuthorizationHeaders == {NoAuthorization, Bearer("secret"), Bearer("other"), <<"Basic", "secret">>}
UserHeaders == {"", "alice"}
SecretHeaders == {"", "proxy-secret", "wrong"}

InitAuth ==
    /\ state = [d \in Devices |-> InitState]
    /\ remote = [Version |-> 1, Revision |-> 1, SaltB64 |-> "salt1",
                 KeyCheckB64 |-> "check1", Teams |-> EmptyMap,
                 Projects |-> InitState.Projects]
    /\ pc = [d \in Devices |-> "idle"]
    /\ pushRemote = [d \in Devices |-> EmptyRemoteStore]
    /\ pushForce = [d \in Devices |-> FALSE]
    /\ result = [op |-> "init", dev |-> "", err |-> "", keys |-> {}, flag |-> FALSE, afterPush |-> FALSE]
    /\ FileInit
    /\ CloudInit
    /\ ServerInit
    /\ RetryInit
    /\ ApiInit /\ LimitInit /\ MigInit /\ StateFileInit
    /\ \E rawMode \in RawModes, token \in ServerTokens, rawSecret \in RawSecrets :
          authz = ServerConfig(rawMode, token, "", rawSecret)
    /\ srvLimiter = newRateLimiter(0, 0)

NextAuth ==
    \E method \in {"GET", "PUT"}, a \in AuthorizationHeaders, user \in UserHeaders,
       secret \in SecretHeaders, ifMatch \in {"0", "1"} :
       serverHandleStore(ServerRequest(method, a, user, secret, ifMatch))

SpecAuth == InitAuth /\ [][NextAuth]_vars

\* SpecMigrate: loadState on every state file of the universe below
StateVersions == -1..3
DiskMaps == {NilMap, MakeMap(EmptyMap), MakeMap("api" :> "/work/api")}
DiskTeamPtrs == {NilTeam, TeamPtr("core", NilMap), TeamPtr("core", MakeMap("u1" :> "admin"))}
DiskTeams == {NilMap, MakeMap(EmptyMap)} \cup {MakeMap("core" :> t) : t \in DiskTeamPtrs}
DiskEnvPtrs == {NilEnv, EnvPtr("dev", NilMap), EnvPtr("dev", MakeMap("KEY" :> "rec"))}
DiskEnvs == {NilMap, MakeMap(EmptyMap)} \cup {MakeMap("dev" :> e) : e \in DiskEnvPtrs}
DiskProjectPtrs == {NilProject} \cup {ProjectPtr("api", "core", envs) : envs \in DiskEnvs}
DiskProjects == {NilMap, MakeMap(EmptyMap)} \cup {MakeMap("api" :> p) : p \in DiskProjectPtrs}

InitMigrate ==
    /\ state = [d \in Devices |-> InitState]
    /\ remote = [Version |-> 1, Revision |-> 1, SaltB64 |-> "salt1",
                 KeyCheckB64 |-> "check1", Teams |-> EmptyMap,
                 Projects |-> InitState.Projects]
    /\ pc = [d \in Devices |-> "idle"]
    /\ pushRemote = [d \in Devices |-> EmptyRemoteStore]
    /\ pushForce = [d \in Devices |-> FALSE]
    /\ result = [op |-> "init", dev |-> "", err |-> "", keys |-> {}, flag |-> FALSE, afterPush |-> FALSE]
    /\ FileInit
    /\ CloudInit
    /\ ServerInit
    /\ RetryInit
    /\ ApiInit /\ LimitInit /\ AuthInit /\ StateFileInit
    /\ \E version \in StateVersions, env \in {"", "prod"}, bindings \in DiskMaps,
          teams \in DiskTeams, projects \in DiskProjects :
          mig = Migration(DiskState(version, env, bindings, teams, projects))

NextMigrate == loadState \/ MigrateAgain

SpecMigrate == InitMigrate /\ [][NextMigrate]_vars

\* SpecStateFile: two commands on one device save the state
NextStateFile ==
    \/ \E p \in Procs, st \in SavedStates \ {"init"} : saveStateOpen(p, st)
    \/ \E p \in Procs : saveStateWrite(p)
    \/ \E p \in Procs : saveStateRename(p)

SpecStateFile == Init /\ [][NextStateFile]_vars

\* SpecBucket: GETs of two clients through the middleware while time passes
InitBucket ==
    /\ state = [d \in Devices |-> InitState]
    /\ remote = [Version |-> 1, Revision |-> 1, SaltB64 |-> "salt1",
                 KeyCheckB64 |-> "check1", Teams |-> EmptyMap,
                 Projects |-> InitState.Projects]
    /\ pc = [d \in Devices |-> "idle"]
    /\ pushRemote = [d \in Devices |-> EmptyRemoteStore]
    /\ pushForce = [d \in Devices |-> FALSE]
    /\ result = [op |-> "init", dev |-> "", err |-> "", keys |-> {}, flag |-> FALSE, afterPush |-> FALSE]
    /\ FileInit
    /\ CloudInit
    /\ ServerInit
    /\ RetryInit
    /\ ApiInit /\ LimitInit /\ MigInit /\ StateFileInit
    /\ authz = ServerConfig("off", "", "", "")
    /\ \E rpm \in 0..MaxRPM, burst \in {0, 2} : srvLimiter = newRateLimiter(rpm, burst)

\* GET /v1/store without credentials
PlainGet == ServerRequest("GET", NoAuthorization, "", "", "")

NextBucket ==
    \/ \E f \in {<<>>, <<"10.0.0.2">>}, path \in {"/healthz", "/v1/store"} :
          withMiddleware(PlainGet, path,
                         f, "10.0.0.1", TRUE)
    \/ SweepBuckets
    \/ ServerTick

SpecBucket == InitBucket /\ [][NextBucket]_vars

\* SpecAudit: events logged one after the other while time passes
InitAudit ==
    /\ state = [d \in Devices |-> InitState]
    /\ remote = [Version |-> 1, Revision |-> 1, SaltB64 |-> "salt1",
                 KeyCheckB64 |-> "check1", Teams |-> EmptyMap,
                 Projects |-> InitState.Projects]
    /\ pc = [d \in Devices |-> "idle"]
    /\ pushRemote = [d \in Devices |-> EmptyRemoteStore]
    /\ pushForce = [d \in Devices |-> FALSE]
    /\ result = [op |-> "init", dev |-> "", err |-> "", keys |-> {}, flag |-> FALSE, afterPush |-> FALSE]
    /\ FileInit
    /\ CloudInit
    /\ ServerInit
    /\ RetryInit
    /\ ApiInit /\ LimitInit /\ AuthInit /\ MigInit
    /\ sfile = [StatePath |-> 1, tmp |-> NoInode,
                inode |-> [n \in Inodes |-> IF n = 1 THEN MarshalIndent("init") ELSE <<>>],
                free |-> 2, passed |-> {"init"}, proc |-> [p \in Procs |-> IdleSave]]
    /\ \E maxBytes \in {2, 3}, maxFiles \in {0, 2}, maxAge \in {0, 2}, maxAgeDays \in {0, 3} :
          audit = AuditDir(maxBytes, maxFiles, maxAge, maxAgeDays)

NextAudit ==
    \/ \E bytes \in {1, 2} : logAudit(bytes)
    \/ AuditTick

SpecAudit == InitAudit /\ [][NextAudit]_vars

\* SpecHTTPSave: one call of saveRemoteHTTPToURL against the self-host server,
\* whose store is at revision 0 or 1, with the expected revision right or not
InitHTTPSave ==
    /\ state = [d \in Devices |-> InitState]
    /\ remote = [Version |-> 1, Revision |-> 1, SaltB64 |-> "salt1",
                 KeyCheckB64 |-> "check1", Teams |-> EmptyMap,
                 Projects |-> InitState.Projects]
    /\ pc = [d \in Devices |-> "idle"]
    /\ pushRemote = [d \in Devices |-> EmptyRemoteStore]
    /\ pushForce = [d \in Devices |-> FALSE]
    /\ result = [op |-> "init", dev |-> "", err |-> "", keys |-> {}, flag |-> FALSE, afterPush |-> FALSE]
    /\ FileInit
    /\ CloudInit
    /\ ApiInit /\ LimitInit /\ MigInit /\ StateFileInit
    /\ srvMu = [writer |-> "", readers |-> {}]
    /\ sreq = [q \in ServerReqs |-> IdleServerRequest]
    /\ \E r0 \in {0, 1} :
          /\ srvStore = [revision |-> r0, writer |-> "load"]
          /\ srvDisk = srvStore
          /\ installed = {srvStore}
          /\ \E max \in 1..3, expected \in {0, 1} :
                retry = saveRemoteHTTPToURL(max, expected, srvStore)
    /\ authz = ServerConfig("off", "", "", "")
    /\ \E rpm \in {0, 1} : srvLimiter = newRateLimiter(rpm, 0)

NextHTTPSave ==
    \/ \E saveOK \in BOOLEAN : ServePut(saveOK)
    \/ \E lost \in BOOLEAN : PutReturns(lost)
    \/ PutNotSent
    \/ ServerTick

SpecHTTPSave == InitHTTPSave /\ [][NextHTTPSave]_vars

\* SpecPut: requests to /v1/store of a server in token mode, with and without
\* the token, with bodies and If-Match headers of every kind, the write of
\* the blob to disk succeeding or not
InitPut ==
    /\ state = [d \in Devices |-> InitState]
    /\ remote = [Version |-> 1, Revision |-> 1, SaltB64 |-> "salt1",
                 KeyCheckB64 |-> "check1", Teams |-> EmptyMap,
                 Projects |-> InitState.Projects]
    /\ pc = [d \in Devices |-> "idle"]
    /\ pushRemote = [d \in Devices |-> EmptyRemoteStore]
    /\ pushForce = [d \in Devices |-> FALSE]
    /\ result = [op |-> "init", dev |-> "", err |-> "", keys |-> {}, flag |-> FALSE, afterPush |-> FALSE]
    /\ FileInit
    /\ CloudInit
    /\ ServerInit
    /\ RetryInit
    /\ ApiInit /\ LimitInit /\ MigInit /\ StateFileInit
    /\ authz = ServerConfig("token", "secret", "", "")
    /\ \E rpm \in {0, 1} : srvLimiter = newRateLimiter(rpm, 0)

NextPut ==
    \/ \E method \in {"GET", "PUT"}, a \in {NoAuthorization, Bearer("secret")},
          ifMatch \in {"", "0", "1", "x"}, body \in {"ok", "invalid json", "no projects"},
          saveOK \in BOOLEAN :
          withMiddleware(WithBody(ServerRequest(method, a, "", "", ifMatch), body),
                         "/v1/store", <<>>, "10.0.0.1", saveOK)
    \/ ServerTick

SpecPut == InitPut /\ [][NextPut]_vars

\* SpecMembers: teams created and their members added, changed and removed
NextMembers ==
    \/ \E d \in Devices, t \in TeamNames : TeamCreate(d, t)
    \/ \E d \in Devices, t \in TeamNames, m \in Devices, role \in Roles :
          TeamAddMember(d, t, m, role)
    \/ \E d \in Devices, t \in TeamNames, m \in Devices : TeamRemoveMember(d, t, m)

SpecMembers == Init /\ [][NextMembers]_vars

\* SpecSelect: d1 creates, selects and deletes projects and environments in
\* two working directories and pulls; the remote holds project api, and
\* possibly project web with environment prod pushed by another device
InitSelect ==
    /\ state = [d \in Devices |-> InitState]
    /\ \E projects \in {InitState.Projects,
                        [p \in ProjectNames |->
                            [Team |-> "",
                             Envs |-> [e \in (IF p = ProjectName THEN {defaultEnv} ELSE {"prod"}) |->
                                          [Vars |-> EmptyMap]]]]} :
          remote = [Version |-> 1, Revision |-> 1, SaltB64 |-> "salt1",
                    KeyCheckB64 |-> "check1", Teams |-> EmptyMap, Projects |-> projects]
    /\ pc = [d \in Devices |-> "idle"]
    /\ pushRemote = [d \in Devices |-> EmptyRemoteStore]
    /\ pushForce = [d \in Devices |-> FALSE]
    /\ result = [op |-> "init", dev |-> "", err |-> "", keys |-> {}, flag |-> FALSE, afterPush |-> FALSE]
    /\ FileInit
    /\ CloudInit
    /\ ServerInit
    /\ RetryInit
    /\ ExtInit

NextSelect ==
    \/ \E name \in ProjectNames : ProjectCreate("d1", name)
    \/ \E cwd \in Dirs, name \in ProjectNames : ProjectUse("d1", cwd, name)
    \/ \E name \in ProjectNames : ProjectDelete("d1", name)
    \/ \E e \in EnvNames : EnvCreate("d1", e)
    \/ \E e \in EnvNames : EnvUse("d1", e)
    \/ \E f \in BOOLEAN : Pull("d1", f)

SpecSelect == InitSelect /\ [][NextSelect]_vars

\* SpecOrg: two devices create teams and projects, push and pull; d2 starts
\* initialised or with a fresh config directory it restores into
OrgTeams == {"core", "ops"}

InitOrg ==
    /\ \E st2 \in {InitState, NoState} :
          state = [d \in Devices |-> IF d = "d1" THEN InitState ELSE st2]
    /\ remote = [Version |-> 1, Revision |-> 1, SaltB64 |-> "salt1",
                 KeyCheckB64 |-> "check1", Teams |-> EmptyMap,
                 Projects |-> InitState.Projects]
    /\ pc = [d \in Devices |-> "idle"]
    /\ pushRemote = [d \in Devices |-> EmptyRemoteStore]
    /\ pushForce = [d \in Devices |-> FALSE]
    /\ result = [op |-> "init", dev |-> "", err |-> "", keys |-> {}, flag |-> FALSE, afterPush |-> FALSE]
    /\ FileInit
    /\ CloudInit
    /\ ServerInit
    /\ RetryInit
    /\ ExtInit

NextOrg ==
    \/ \E d \in Devices, t \in OrgTeams : TeamCreate(d, t)
    \/ \E d \in Devices, name \in ProjectNames : ProjectCreate(d, name)
    \/ \E d \in Devices : Push(d, FALSE)
    \/ \E d \in Devices : Pull(d, FALSE)
    \/ \E d \in Devices, ph \in Phrases : Restore(d, ph)

SpecOrg == InitOrg /\ [][NextOrg]_vars

\* SpecFrame: both devices hold project api with environments dev and prod
\* and project web with environment dev, while the remote holds api/dev only;
\* d1 sets secrets, creates a team and pushes, d2 pulls, and both select
\* projects and environments
FrameProjects ==
    [p \in ProjectNames |->
        [Team |-> "",
         Envs |-> [e \in (IF p = ProjectName THEN EnvNames ELSE {defaultEnv}) |->
                      [Vars |-> EmptyMap]]]]

InitFrame ==
    /\ state = [d \in Devices |-> [InitState EXCEPT !.Projects = FrameProjects]]
    /\ remote = [Version |-> 1, Revision |-> 1, SaltB64 |-> "salt1",
                 KeyCheckB64 |-> "check1", Teams |-> EmptyMap,
                 Projects |-> InitState.Projects]
    /\ pc = [d \in Devices |-> "idle"]
    /\ pushRemote = [d \in Devices |-> EmptyRemoteStore]
    /\ pushForce = [d \in Devices |-> FALSE]
    /\ result = [op |-> "init", dev |-> "", err |-> "", keys |-> {}, flag |-> FALSE, afterPush |-> FALSE]
    /\ FileInit
    /\ CloudInit
    /\ ServerInit
    /\ RetryInit
    /\ ExtInit

NextFrame ==
    \/ \E k \in VaultKeys, v \in Values : SetUpTo("d1", k, v, 1)
    \/ \E t \in TeamNames : TeamCreate("d1", t)
    \/ \E d \in Devices, name \in ProjectNames : ProjectUse(d, CWD, name)
    \/ \E d \in Devices, e \in EnvNames : EnvUse(d, e)
    \/ Push("d1", FALSE)
    \/ Pull("d2", FALSE)

SpecFrame == InitFrame /\ [][NextFrame]_vars

\* SpecVault: GET and PUT /v1/store on both repositories by u1 with its token
\* and by the OIDC user w1, for the caller's own vault and for an
\* organization, named o1 or by the id of user u1
VaultOwners == OwnerIDs \cup {"org:u1"}
VaultKeys2 == {pgKey(o, pr) : o \in VaultOwners, pr \in CloudProjects}

InitVault ==
    /\ state = [d \in Devices |-> InitState]
    /\ remote = [Version |-> 1, Revision |-> 1, SaltB64 |-> "salt1",
                 KeyCheckB64 |-> "check1", Teams |-> EmptyMap,
                 Projects |-> InitState.Projects]
    /\ pc = [d \in Devices |-> "idle"]
    /\ pushRemote = [d \in Devices |-> EmptyRemoteStore]
    /\ pushForce = [d \in Devices |-> FALSE]
    /\ result = [op |-> "init", dev |-> "", err |-> "", keys |-> {}, flag |-> FALSE, afterPush |-> FALSE]
    /\ FileInit
    /\ ServerInit
    /\ RetryInit
    /\ ExtInit
    /\ memData = [k \in {memKey(o, pr) : o \in VaultOwners, pr \in CloudProjects} |->
                     [exists |-> FALSE, Revision |-> 0, writer |-> ""]]
    /\ pgTable = [k \in VaultKeys2 |-> [exists |-> FALSE, revision |-> 0, writer |-> ""]]
    /\ pgLock = [k \in VaultKeys2 |-> ""]
    /\ creq = [q \in CloudReqs |-> IdleRequest]
    /\ accepted = [t \in CloudRepos \X VaultOwners \X CloudProjects \X (0..MaxRevision - 1) |-> 0]

NextVault ==
    \/ \E repo \in CloudRepos, method \in {"GET", "PUT"},
          auth \in {rawTokenOf("k1"), IDToken("w1")}, orgID \in {"", "o1", "u1"},
          project \in {"api", " API"}, ifMatch \in {"0", "1"} :
          handleStore("q1", repo,
                      [StoreRequest(method, auth, orgID, "", ifMatch)
                          EXCEPT !.project = project])
    \/ memoryRepoPut("q1")
    \/ pgSelectForUpdate("q1")
    \/ pgCheckRevision("q1")
    \/ pgUpsert("q1")
    \/ pgCommit("q1")
    \/ WriteResponse("q1")

SpecVault == InitVault /\ [][NextVault]_vars

\* ------------------------------------------------------------------ claims
\* C1: two processes that both loaded the remote file at revision R and both
\* ran saveRemoteStore with expectedRevision R: exactly one succeeded, the
\* other failed with "remote changed concurrently", and the file holds
\* revision R+1.
C1_FileSaveRace ==
    \A p, q \in Procs :
        (p # q /\ proc[p].pc = "done" /\ proc[q].pc = "done"
              /\ proc[p].loaded = proc[q].loaded) =>
            /\ {proc[p].res, proc[q].res} = {"ok", "remote changed concurrently"}
            /\ file.exists
            /\ file.Revision = proc[p].loaded + 1
            /\ file.Writer \in {p, q}
            /\ proc[file.Writer].res = "ok"

\* both processes returned from saving over revision 1: p1 lost, p2 won
C1_Witness ==
    /\ proc["p1"].pc = "done" /\ proc["p2"].pc = "done"
    /\ proc["p1"].loaded = 1 /\ proc["p2"].loaded = 1
    /\ proc["p1"].res = "remote changed concurrently"
    /\ proc["p2"].res = "ok"

\* C2: for every repository, (owner, project) and revision r, at most one PUT
\* carrying If-Match r is accepted.
C2_OneAcceptedPerRevision ==
    \A t \in DOMAIN accepted : accepted[t] <= 1

\* the PUTs the server has been handed in the current round
PutsInFlight == {q \in ServerReqs : sreq[q].method = "PUT" /\ sreq[q].pc # "idle"}

LocalOf(d) == currentEnv(state[d]).Vars
LocalOfNext(d) == currentEnv(state'[d]).Vars
RemoteOf(d) == RemoteVars(remote, state[d].CurrentProject, state[d].CurrentEnv)
RemoteOfNext(d) == RemoteVars(remote', state[d].CurrentProject, state[d].CurrentEnv)

\* a Push of device d returns from saveRemoteStore in this step
SaveReturns(d) == pc[d] = "push" /\ pc'[d] = "idle"

\* C4: the remote revision never decreases; a save whose expected revision is
\* the current one sets it to exactly that revision plus one; a save whose
\* expected revision differs fails with the conflict error and leaves the
\* stored remote unchanged; only a successful push changes the remote.
C4_RevisionDiscipline ==
    [][ /\ remote'.Revision >= remote.Revision
        /\ (remote' # remote =>
                /\ result'.op = "push" /\ result'.err = ""
                /\ SaveReturns(result'.dev))
        /\ \A d \in Devices : SaveReturns(d) =>
                IF pushRemote[d].Revision = remote.Revision
                THEN /\ result'.err = ""
                     /\ remote'.Revision = pushRemote[d].Revision + 1
                ELSE /\ result'.err = "remote changed concurrently"
                     /\ remote' = remote
      ]_vars

C4_Witness ==
    /\ result.op = "push"
    /\ result.err = "remote changed concurrently"
    /\ remote.Revision >= 2

\* C5: a Push whose loaded remote is no longer the stored remote when it
\* saves is rejected as stale and the stored remote keeps what the other
\* device wrote; a Push succeeds only over the remote state it read.
C5_NoLostUpdate ==
    [][ \A d \in Devices : (SaveReturns(d) /\ pushRemote[d] # remote) =>
            /\ remote' = remote
            /\ result'.op = "push" /\ result'.dev = d
            /\ result'.err = "remote changed concurrently"
            /\ state' = state
      ]_vars

C5_Witness ==
    /\ result.op = "push"
    /\ result.err = "remote changed concurrently"
    /\ \E k \in DOMAIN RemoteOf(result.dev) :
          LET vs == RemoteOf(result.dev)[k].Versions
          IN  vs # <<>> /\ vs[Len(vs)].DeviceID # result.dev

\* a Push / a Pull of device d runs from start to return in this step
PushReturns(d) == result'.op = "push" /\ result'.dev = d /\ result'.err # "saving"
PullReturns(d) == result'.op = "pull" /\ result'.dev = d

\* rc, lc and ls of key k as device d's command finds them
rcOf(d, k) == IF k \in DOMAIN RemoteOf(d) THEN RemoteOf(d)[k].CurrentVersion ELSE 0
lcOf(d, k) == LocalOf(d)[k].CurrentVersion
lsOf(d, k) == LocalOf(d)[k].LastSyncedRemoteVersion
InConflict(d, k) == rcOf(d, k) > lsOf(d, k) /\ lcOf(d, k) > lsOf(d, k)

\* C6: a local key is in conflict iff rc > ls and lc > ls; a Push without
\* --force that finds at least one such key fails listing exactly the
\* conflicting keys and changes neither the stored remote nor the persisted
\* local state; no other Push fails with conflicts.
C6_PushConflictAbort ==
    [][ \A d \in Devices : PushReturns(d) =>
            LET conflicting == {k \in DOMAIN LocalOf(d) : InConflict(d, k)}
            IN  /\ (result'.err = "conflicts") <=> (conflicting # {} /\ ~result'.flag)
                /\ (conflicting # {} /\ ~result'.flag) =>
                        /\ result'.keys = conflicting
                        /\ remote' = remote
                        /\ state' = state
      ]_vars

\* a Push failed listing two conflicting keys
C6_Witness ==
    /\ result.op = "push"
    /\ result.err = "conflicts"
    /\ result.keys = Keys
    /\ \A k \in Keys : InConflict(result.dev, k)

\* C7: after a successful Push, a local key that is non-conflicting with
\* lc >= rc, or conflicting under --force, has its local record on the remote
\* and its persisted LastSyncedRemoteVersion equal to lc; a non-conflicting
\* key with lc < rc keeps its remote record and its LastSyncedRemoteVersion.
C7_PushCopyRule ==
    [][ \A d \in Devices : (PushReturns(d) /\ result'.err = "") =>
            \A k \in DOMAIN LocalOf(d) :
                /\ k \in DOMAIN LocalOfNext(d)
                /\ IF (~InConflict(d, k) /\ lcOf(d, k) >= rcOf(d, k))
                      \/ (InConflict(d, k) /\ result'.flag)
                   THEN /\ k \in DOMAIN RemoteOfNext(d)
                        /\ RemoteOfNext(d)[k].CurrentVersion = lcOf(d, k)
                        /\ RemoteOfNext(d)[k].Versions = LocalOf(d)[k].Versions
                        /\ LocalOfNext(d)[k].LastSyncedRemoteVersion = lcOf(d, k)
                   ELSE IF ~InConflict(d, k) /\ lcOf(d, k) < rcOf(d, k)
                   THEN /\ RemoteOfNext(d)[k] = RemoteOf(d)[k]
                        /\ LocalOfNext(d)[k].LastSyncedRemoteVersion = lsOf(d, k)
                   ELSE FALSE
      ]_vars

\* a Push succeeded that left a key whose remote is ahead alone and that
\* copied another key the pushing device wrote
C7_Witness ==
    /\ result.op = "push"
    /\ result.err = ""
    /\ \E k1, k2 \in DOMAIN LocalOf(result.dev) :
        /\ k1 \in DOMAIN RemoteOf(result.dev)
        /\ lcOf(result.dev, k1) < rcOf(result.dev, k1)
        /\ lsOf(result.dev, k1) < rcOf(result.dev, k1)
        /\ k2 \in DOMAIN RemoteOf(result.dev)
        /\ RemoteOf(result.dev)[k2].Versions = LocalOf(result.dev)[k2].Versions
        /\ LocalOf(result.dev)[k2].Versions[lcOf(result.dev, k2)].DeviceID = result.dev
        /\ lsOf(result.dev, k2) = lcOf(result.dev, k2)

\* the remote record of key k as Pull stores it locally
PulledRecord(d, k) ==
    [RemoteOf(d)[k] EXCEPT !.LastSyncedRemoteVersion = RemoteOf(d)[k].CurrentVersion]

\* key k is on both sides and in conflict when device d pulls
PullInConflict(d, k) == k \in DOMAIN LocalOf(d) /\ InConflict(d, k)

\* C8: Pull uses the conflict predicate of Push on the keys present on both
\* sides; a Pull without --force-remote that finds a conflicting key fails
\* listing the conflicting keys and leaves the persisted local state
\* (records, teams, LastSyncedRemoteVersion) unchanged; under --force-remote
\* every conflicting key's local record becomes the remote record.
C8_PullConflictAbort ==
    [][ \A d \in Devices : PullReturns(d) =>
            LET conflicting == {k \in DOMAIN RemoteOf(d) : PullInConflict(d, k)}
            IN  /\ (result'.err = "conflicts") <=> (conflicting # {} /\ ~result'.flag)
                /\ (conflicting # {} /\ ~result'.flag) =>
                        /\ result'.keys = conflicting
                        /\ state' = state
                /\ (conflicting # {} /\ result'.flag) =>
                        /\ result'.err = ""
                        /\ \A k \in conflicting : LocalOfNext(d)[k] = PulledRecord(d, k)
      ]_vars

\* a Pull failed on a conflict while the remote held teams the device lacks
C8_Witness ==
    /\ result.op = "pull"
    /\ result.err = "conflicts"
    /\ result.keys # {}
    /\ DOMAIN remote.Teams # {}
    /\ state[result.dev].Teams # remote.Teams

\* C9: a successful Pull copies a non-conflicting remote key exactly when the
\* local record is absent or rc >= lc; a non-conflicting local record with
\* lc > rc is left unchanged, with or without --force-remote.
C9_PullCopyRule ==
    [][ \A d \in Devices : (PullReturns(d) /\ result'.err = "") =>
            \A k \in DOMAIN RemoteOf(d) :
                ~PullInConflict(d, k) =>
                    IF k \notin DOMAIN LocalOf(d) \/ rcOf(d, k) >= lcOf(d, k)
                    THEN LocalOfNext(d)[k] = PulledRecord(d, k)
                    ELSE LocalOfNext(d)[k] = LocalOf(d)[k]
      ]_vars

\* the versions of s are kept, in order and unchanged, at the front of t
IsPrefix(s, t) == Len(s) <= Len(t) /\ \A i \in 1..Len(s) : t[i] = s[i]

\* the record of key k keeps every stored version and its CurrentVersion
\* does not decrease in this step
KeepsHistory(d, k) ==
    /\ k \in DOMAIN LocalOfNext(d)
    /\ IsPrefix(LocalOf(d)[k].Versions, LocalOfNext(d)[k].Versions)
    /\ LocalOfNext(d)[k].CurrentVersion >= LocalOf(d)[k].CurrentVersion

\* a local write of device d that succeeded in this step
WriteReturns(d) ==
    /\ result'.op \in {"set", "rotate", "delete", "rollback"}
    /\ result'.dev = d
    /\ result'.err = ""

\* the write of this step appended exactly one version, numbered
\* CurrentVersion+1, to exactly one record
AppendsNext(d) ==
    \E k \in DOMAIN LocalOfNext(d) :
        LET old == IF k \in DOMAIN LocalOf(d) THEN LocalOf(d)[k] ELSE NewSecretRecord
            new == LocalOfNext(d)[k]
        IN  /\ Len(new.Versions) = Len(old.Versions) + 1
            /\ IsPrefix(old.Versions, new.Versions)
            /\ new.Versions[Len(new.Versions)].Version = old.CurrentVersion + 1
            /\ new.CurrentVersion = old.CurrentVersion + 1
            /\ \A i \in 1..Len(old.Versions) : old.Versions[i].Version <= old.CurrentVersion
            /\ \A j \in DOMAIN LocalOf(d) \ {k} : LocalOfNext(d)[j] = LocalOf(d)[j]

\* C10 as stated: under Set, Rotate, Delete, Rollback, Push and Pull, with or
\* without --force / --force-remote, no stored version of a local record is
\* mutated or removed, the local CurrentVersion never decreases, and each
\* local write uses version number CurrentVersion+1.
C10_AppendOnly_AllCommands ==
    [][ \A d \in Devices :
            /\ \A k \in DOMAIN LocalOf(d) : KeepsHistory(d, k)
            /\ WriteReturns(d) => AppendsNext(d)
      ]_vars

\* C10: Set, Rotate, Delete, Rollback and Push never mutate or remove a stored
\* version of a local record nor decrease its CurrentVersion, and each local
\* write appends one version numbered CurrentVersion+1; a Pull leaves a local
\* record unchanged or replaces it by the remote record, and without
\* --force-remote it never decreases the local CurrentVersion.
C10_AppendOnly ==
    [][ \A d \in Devices :
            /\ WriteReturns(d) => AppendsNext(d)
            /\ \A k \in DOMAIN LocalOf(d) :
                IF PullReturns(d)
                THEN /\ k \in DOMAIN LocalOfNext(d)
                     /\ \/ LocalOfNext(d)[k] = LocalOf(d)[k]
                        \/ /\ k \in DOMAIN RemoteOf(d)
                           /\ LocalOfNext(d)[k] = PulledRecord(d, k)
                     /\ ~result'.flag =>
                            LocalOfNext(d)[k].CurrentVersion >= LocalOf(d)[k].CurrentVersion
                ELSE KeepsHistory(d, k)
      ]_vars

\* a rollback appended version 2 to a record whose version 1 is still stored
C10_Witness ==
    /\ result.op = "rollback"
    /\ result.err = ""
    /\ \E k \in DOMAIN LocalOf(result.dev) :
        LET rec == LocalOf(result.dev)[k]
        IN  /\ rec.CurrentVersion = 2
            /\ Len(rec.Versions) = 2
            /\ rec.Versions[2].Version = 2
            /\ rec.Versions[2].DeviceID = result.dev
            /\ rec.Versions[1].Version = 1

\* every SecretRecord of a set of projects
RecordsOf(projects) ==
    UNION {UNION {{projects[p].Envs[e].Vars[k] : k \in DOMAIN projects[p].Envs[e].Vars} :
                     e \in DOMAIN projects[p].Envs} : p \in DOMAIN projects}

LocalRecords == UNION {RecordsOf(state[d].Projects) : d \in Devices}
RemoteRecords == RecordsOf(remote.Projects)

\* C11: in every SecretRecord persisted locally or on the remote, the versions
\* are strictly increasing by Version and CurrentVersion is the Version of the
\* last one.
C11_VersionsIncreasing ==
    \A rec \in LocalRecords \cup RemoteRecords :
        /\ Len(rec.Versions) >= 1
        /\ \A i \in 1..(Len(rec.Versions) - 1) :
              rec.Versions[i].Version < rec.Versions[i + 1].Version
        /\ rec.CurrentVersion = rec.Versions[Len(rec.Versions)].Version

\* d2 restored a record of two versions, one of them written by Delete
C11_Witness ==
    /\ result.op = "restore"
    /\ result.err = ""
    /\ \E rec \in RecordsOf(state["d2"].Projects) :
          /\ rec.CurrentVersion = 2
          /\ \E i \in 1..Len(rec.Versions) : rec.Versions[i].Deleted
    /\ RemoteRecords # {}

\* C12: every SecretRecord persisted locally has
\* LastSyncedRemoteVersion <= CurrentVersion.
C12_SyncedAtMostCurrent ==
    \A rec \in LocalRecords : rec.LastSyncedRemoteVersion <= rec.CurrentVersion

\* a Push succeeded on a device whose record is behind the remote's
C12_Witness ==
    /\ result.op = "push"
    /\ result.err = ""
    /\ \E k \in DOMAIN LocalOf(result.dev) :
          /\ k \in DOMAIN RemoteOf(result.dev)
          /\ LocalOf(result.dev)[k].CurrentVersion < RemoteOf(result.dev)[k].CurrentVersion
          /\ LocalOf(result.dev)[k].LastSyncedRemoteVersion >= 1

\* the local and the remote environment of device d hold the same keys with the
\* same CurrentVersion and the same versions
SameEnvironment(localVars, remoteVars) ==
    /\ DOMAIN localVars = DOMAIN remoteVars
    /\ \A k \in DOMAIN localVars :
          /\ localVars[k].CurrentVersion = remoteVars[k].CurrentVersion
          /\ localVars[k].Versions = remoteVars[k].Versions

\* C13: when a device's successful Push is followed at once by its successful
\* Pull, the local and the remote environment have the same key set and, per
\* key, the same CurrentVersion and versions.
C13_PushPullRoundTrip ==
    [][ \A d \in Devices :
            (/\ result.op = "push" /\ result.err = "" /\ result.dev = d
             /\ PullReturns(d) /\ result'.err = "")
            => SameEnvironment(LocalOfNext(d), RemoteOfNext(d)) ]_vars

\* the Pull that followed the device's Push brought in a record another device
\* had written, next to nothing else to do
C13_Witness ==
    /\ result.op = "pull"
    /\ result.err = ""
    /\ result.afterPush
    /\ \E k \in DOMAIN LocalOf(result.dev) :
          LET vs == LocalOf(result.dev)[k].Versions
          IN  vs[Len(vs)].DeviceID # result.dev
    /\ SameEnvironment(LocalOf(result.dev), RemoteOf(result.dev))

\* the remote carries a non-empty salt or key-check that differs from the one
\* in device d's state
CryptoMismatch(d) ==
    \/ remote.SaltB64 # "" /\ remote.SaltB64 # state[d].SaltB64
    \/ remote.KeyCheckB64 # "" /\ remote.KeyCheckB64 # state[d].KeyCheckB64

\* C14: when the remote carries a non-empty salt or key-check that differs
\* from the local state's, Push and Pull fail with "different recovery phrase"
\* and change neither the remote nor the local state; a remote with both fields
\* empty is never rejected for its recovery phrase.
C14_RecoveryMetadataMismatch ==
    [][ \A d \in Devices : (PushReturns(d) \/ PullReturns(d)) =>
            /\ CryptoMismatch(d) =>
                  /\ result'.err = "different recovery phrase"
                  /\ state' = state
                  /\ remote' = remote
            /\ (remote.SaltB64 = "" /\ remote.KeyCheckB64 = "") =>
                  result'.err # "different recovery phrase" ]_vars

\* a Pull was rejected because the remote has the other device's salt, after
\* that device pushed a secret
C14_Witness ==
    /\ result.op = "pull"
    /\ result.err = "different recovery phrase"
    /\ remote.SaltB64 # ""
    /\ remote.SaltB64 # state[result.dev].SaltB64
    /\ remote.KeyCheckB64 # state[result.dev].KeyCheckB64
    /\ RemoteOf(result.dev) # EmptyMap

\* C15: once a Push has populated the salt and key-check of a cloud vault,
\* no later Push changes them, whatever the interleaving of the devices' Pushes.
C15_FirstPusherKeeps ==
    [][ /\ \A key \in DOMAIN pgTable :
              pgTable[key].exists => storedCrypto(pgTable'[key]) = storedCrypto(pgTable[key])
        /\ \A key \in DOMAIN memData :
              memData[key].exists => storedCrypto(memData'[key]) = storedCrypto(memData[key])
      ]_vars

\* version n is in the history of rec
InHistory(rec, n) == \E i \in 1..Len(rec.Versions) : rec.Versions[i].Version = n

VersionOf(rec, n) == rec.Versions[CHOOSE i \in 1..Len(rec.Versions) : rec.Versions[i].Version = n]

\* Rollback(k, n) of device d appended one version numbered CurrentVersion+1
\* with the nonce, ciphertext, PlainHash and Deleted flag of version n and
\* left the earlier versions as they were
RollbackAppended(d, k, n) ==
    LET old == LocalOf(d)[k]
        new == LocalOfNext(d)[k]
        target == VersionOf(old, n)
        last == new.Versions[Len(new.Versions)]
    IN  /\ result'.err = ""
        /\ new.CurrentVersion = old.CurrentVersion + 1
        /\ Len(new.Versions) = Len(old.Versions) + 1
        /\ SubSeq(new.Versions, 1, Len(old.Versions)) = old.Versions
        /\ last.Version = old.CurrentVersion + 1
        /\ last.NonceB64 = target.NonceB64
        /\ last.CipherB64 = target.CipherB64
        /\ last.PlainHash = target.PlainHash
        /\ last.Deleted = target.Deleted

RollbackRefused(d, k) ==
    /\ result'.err = "version not found"
    /\ LocalOfNext(d)[k] = LocalOf(d)[k]

\* the Get that follows returns the plaintext version n was written with
GetReturnsVersion(d, k, n) ==
    LET target == VersionOf(LocalOf(d)[k], n)
    IN  /\ Get(state'[d], k).err = ""
        /\ sha256(Get(state'[d], k).value) = target.PlainHash

\* C16 as stated: a Rollback to a version of the history appends a copy of it
\* and the following Get returns that version's plaintext; a Rollback to a
\* version that is not in the history fails and leaves the record unchanged.
C16_RollbackThenGet ==
    [][ \A d \in Devices, k \in VaultKeys, n \in 1..MaxHistory + 1 :
            (k \in DOMAIN LocalOf(d) /\ RollbackUpTo(d, k, n, MaxHistory)) =>
                IF InHistory(LocalOf(d)[k], n)
                THEN RollbackAppended(d, k, n) /\ GetReturnsVersion(d, k, n)
                ELSE RollbackRefused(d, k) ]_vars

\* C16: a Rollback to a version of the history appends a copy of it; the
\* following Get returns that version's plaintext when the version holds one
\* and fails with "is deleted" when the version is a deletion; a Rollback to a
\* version that is not in the history fails and leaves the record unchanged.
C16_Rollback ==
    [][ \A d \in Devices, k \in VaultKeys, n \in 1..MaxHistory + 1 :
            (k \in DOMAIN LocalOf(d) /\ RollbackUpTo(d, k, n, MaxHistory)) =>
                IF InHistory(LocalOf(d)[k], n)
                THEN /\ RollbackAppended(d, k, n)
                     /\ IF VersionOf(LocalOf(d)[k], n).Deleted
                        THEN Get(state'[d], k).err = "is deleted"
                        ELSE GetReturnsVersion(d, k, n)
                ELSE RollbackRefused(d, k) ]_vars

\* the key was set to "a", then to "b", then rolled back to version 1: Get
\* returns "a" again
C16_Witness ==
    /\ result.op = "rollback"
    /\ result.err = ""
    /\ \E k \in DOMAIN LocalOf("d1") :
          LET rec == LocalOf("d1")[k]
          IN  /\ Len(rec.Versions) = 3
              /\ rec.Versions[1].PlainHash = sha256("a")
              /\ rec.Versions[2].PlainHash = sha256("b")
              /\ rec.Versions[3].CipherB64 = rec.Versions[1].CipherB64
              /\ Get(state["d1"], k) = [err |-> "", value |-> "a"]

\* the operations open to a reader, those that take a maintainer, and those
\* that take an admin
ReaderOps == ReadCommands \cup {"pull", "project use", "env use"}
MaintainerOps == {"set", "rotate", "delete", "rollback", "push", "env create"}
AdminOps == {"project delete", "team add-member", "team remove-member"}

\* the canonical roles that are sufficient for an operation
SufficientRoles(op) ==
    IF op \in ReaderOps THEN {roleAdmin, roleMaintainer, roleReader}
    ELSE IF op \in MaintainerOps THEN {roleAdmin, roleMaintainer}
    ELSE {roleAdmin}

\* the canonical role of device d on the team that owns the project, "none"
\* without a membership
RoleOnOwningTeam(d) ==
    LET members == state[d].Teams["core"]
    IN  IF d \notin DOMAIN members THEN "none"
        ELSE IF members[d] = roleWriter THEN roleMaintainer
        ELSE members[d]

\* the command was refused for the actor's role
Refused == result'.err \in {"insufficient permissions", "team admin role required"}

\* C17: on a team-owned project a command is refused iff the actor's canonical
\* role on the owning team is not sufficient for it (reader and up for the
\* reading commands, pull, project use and env use; maintainer and up for the
\* writing commands, push and env create; admin for project delete, team
\* add-member and team remove-member; no membership, no command), and a refused
\* command leaves the persisted state and the remote unchanged.
C17_RoleGating ==
    [][ \A d \in Devices :
            (result'.dev = d /\ result'.op \in ReaderOps \cup MaintainerOps \cup AdminOps) =>
                /\ Refused <=> RoleOnOwningTeam(d) \notin SufficientRoles(result'.op)
                /\ Refused => (state' = state /\ remote' = remote) ]_vars

\* a maintainer was refused project delete after it had pushed a secret
C17_Witness ==
    /\ result.op = "project delete"
    /\ result.err = "insufficient permissions"
    /\ RoleOnOwningTeam(result.dev) = roleMaintainer
    /\ state[result.dev].Teams["core"][result.dev] = roleMaintainer
    /\ RemoteRecords # {}

\* C18: whenever Pull returns success, the local teams equal the remote teams
\* if those are non-empty and are unchanged if they are empty, on every
\* successful return path, "nothing to pull" included.
C18_PullTeamsReplaced ==
    [][ \A d \in Devices : (PullReturns(d) /\ result'.err = "") =>
            IF DOMAIN remote.Teams # {}
            THEN state'[d].Teams = remote.Teams
            ELSE state'[d].Teams = state[d].Teams ]_vars

\* the projects hold the same environments, keys, versions and CurrentVersion
SameProjects(local, rem) ==
    /\ DOMAIN local = DOMAIN rem
    /\ \A p \in DOMAIN local :
          /\ local[p].Team = rem[p].Team
          /\ DOMAIN local[p].Envs = DOMAIN rem[p].Envs
          /\ \A e \in DOMAIN local[p].Envs :
                SameEnvironment(local[p].Envs[e].Vars, rem[p].Envs[e].Vars)

\* what Restore needs: no state file, a remote with salt and key-check, and a
\* phrase whose key matches the key-check
RestoreAllowed(d, phrase) ==
    /\ ~stateExists(state[d])
    /\ remote.SaltB64 # ""
    /\ remote.KeyCheckB64 # ""
    /\ keyCheck(deriveKey(phrase, remote.SaltB64)) = remote.KeyCheckB64

\* C19: Restore writes the local state only if no state exists, the remote has
\* both salt and key-check and the phrase's key matches the key-check, and
\* otherwise fails and writes nothing; the restored state has the remote's
\* salt, key-check, projects and teams with every record marked as synced, and
\* a Push or Pull run right after it reports no conflicts.
C19_Restore ==
    [][ \A d \in Devices :
          /\ \A phrase \in Phrases : Restore(d, phrase) =>
                IF RestoreAllowed(d, phrase)
                THEN /\ result'.err = ""
                     /\ state'[d].SaltB64 = remote.SaltB64
                     /\ state'[d].KeyCheckB64 = remote.KeyCheckB64
                     /\ state'[d].Teams = remote.Teams
                     /\ SameProjects(state'[d].Projects, remote.Projects)
                     /\ \A rec \in RecordsOf(state'[d].Projects) :
                           rec.LastSyncedRemoteVersion = rec.CurrentVersion
                ELSE /\ result'.err # ""
                     /\ state' = state
          /\ (/\ result.op = "restore" /\ result.err = "" /\ result.dev = d
              /\ (PushReturns(d) \/ PullReturns(d)))
             => result'.err # "conflicts" ]_vars

\* d2 restored, with the right phrase, a remote holding a record of two
\* versions that its writer had pushed with an older sync mark
C19_Witness ==
    /\ result.op = "restore"
    /\ result.err = ""
    /\ result.dev = "d2"
    /\ state["d2"].KeyCheckB64 = keyCheck(deriveKey("phrase1", remote.SaltB64))
    /\ \E rec \in RemoteRecords :
          /\ rec.CurrentVersion = 2
          /\ rec.LastSyncedRemoteVersion < rec.CurrentVersion
    /\ \A rec \in RecordsOf(state["d2"].Projects) : rec.LastSyncedRemoteVersion = 2

\* the delay of the i-th sleep as the statement gives it:
\* d_i = min(base * 2^(i-1), maxDelay), over the effective configuration
DelayOf(i) ==
    LET cfg == remoteRetryConfig(retry)
        d == cfg.base * Pow2(i - 1)
    IN  IF d < cfg.maxDelay THEN d ELSE cfg.maxDelay

\* K retryable failures followed by a success
SucceededAfter(K) ==
    /\ retry.status = "ok"
    /\ retry.failures = K

AttemptsAndSleeps(K) ==
    /\ retry.calls = K + 1
    /\ Len(retry.sleeps) = K

\* every sleep lies in [d_i, 1.5 * d_i]
SleepsInRange ==
    \A i \in 1..Len(retry.sleeps) :
        /\ DelayOf(i) <= retry.sleeps[i]
        /\ 2 * retry.sleeps[i] <= 3 * DelayOf(i)

SleepsNonDecreasing ==
    \A i \in 1..Len(retry.sleeps) - 1 : retry.sleeps[i] <= retry.sleeps[i + 1]

\* the sleeps do not decrease from i to i+1 whenever d_(i+1) >= 1.5 * d_i
SleepsNonDecreasingWhileGrowing ==
    \A i \in 1..Len(retry.sleeps) - 1 :
        2 * DelayOf(i + 1) >= 3 * DelayOf(i) =>
            retry.sleeps[i] <= retry.sleeps[i + 1]

RetriedByPolicy(resp) ==
    \/ resp.kind = "do" /\ resp.netErr
    \/ resp.kind = "status" /\ resp.code \in {429} \cup 500..599

OtherClientError(resp) ==
    resp.kind = "status" /\ resp.code \in 400..499 \ {429}

\* C21: a load or save makes at most N attempts (N the configured maximum,
\* 3 by default); it goes on to another attempt only after a retryable
\* network error or a 429/5xx response; any other 4xx response ends the call
\* with that error, after a single attempt when it is the first response;
\* after N retryable failures the last error is returned.
C21_RetryPolicy ==
    LET N == remoteRetryConfig(retry).attempts
    IN  /\ retry.calls <= N
        /\ retry.status = "loop" /\ retry.calls >= 1 => RetriedByPolicy(retry.last)
        /\ OtherClientError(retry.last) =>
              /\ retry.status = "err"
              /\ retry.err = retry.last
        /\ retry.failures = N =>
              /\ retry.status = "err"
              /\ retry.err = retry.last

\* two retried failures, then a 409 returned before the attempts are used up
C21_Witness ==
    /\ retry.status = "err"
    /\ retry.calls = 3
    /\ remoteRetryConfig(retry).attempts = 4
    /\ retry.err.code = 409

\* the committed revision of (owner, project) in the tables of a repository
RevisionIn(mem, pg, repo, ownerID, project) ==
    IF repo = "memory"
    THEN IF mem[memKey(ownerID, project)].exists
         THEN mem[memKey(ownerID, project)].Revision ELSE 0
    ELSE IF pg[pgKey(ownerID, project)].exists
         THEN pg[pgKey(ownerID, project)].revision ELSE 0

\* request q is answered in this step
Answered(q) == creq[q].pc # "done" /\ creq'[q].pc = "done"

\* C22: a PUT /v1/store of an authenticated principal with scope store:write
\* whose If-Match equals the current revision of the addressed (owner,
\* project) is answered 200 and raises the stored revision by exactly 1; with
\* any other revision in If-Match it is answered 409, and without If-Match
\* 428, and the stored snapshot is unchanged.
C22_PutIfMatch ==
    [][\A q \in CloudReqs :
          (Answered(q) /\ hreq'[q].req.method = "PUT"
              /\ hreq'[q].req.ifMatch \in {""} \cup DOMAIN Numerals) =>
             LET h == hreq'[q].req.ifMatch
                 current == creq'[q].currentRevision
             IN  IF h = ""
                 THEN /\ creq'[q].status = 428
                      /\ <<memData, pgTable>>' = <<memData, pgTable>>
                 ELSE IF Numerals[h] = current
                 THEN /\ creq'[q].status = 200
                      /\ RevisionIn(memData', pgTable', creq'[q].repo, creq'[q].owner,
                                    creq'[q].project)
                            = RevisionIn(memData, pgTable, creq'[q].repo, creq'[q].owner,
                                         creq'[q].project) + 1
                 ELSE /\ creq'[q].status = 409
                      /\ <<memData, pgTable>>' = <<memData, pgTable>>]_vars

\* the handler takes request q up in this step
Handled(q) == creq[q].pc = "idle" /\ creq'[q].pc # "idle"

\* the user a bearer token stands for: the owner of the PAT, the development
\* user, or the subject of the ID token
UserOfToken(token) ==
    IF \E id \in TokenIDs : rawTokenOf(id) = token
    THEN db.tokens[CHOOSE id \in TokenIDs : rawTokenOf(id) = token].user_id
    ELSE IF token = devToken THEN devUser ELSE token.secret

\* the role the user holds on the organization or team a request names
MembershipRole(req) ==
    LET user == UserOfToken(req.auth)
    IN  IF user \notin CloudUsers THEN ""
        ELSE IF req.team_id # "" THEN db.teams[<<user, req.team_id>>]
        ELSE db.orgs[<<user, req.organization_id>>]

\* reader < maintainer < admin
AtLeast(role, needed) ==
    IF needed = "reader" THEN role \in {"reader", "maintainer", "admin"}
    ELSE role \in {"maintainer", "admin"}

StoreGiven(q) == creq'[q].status = 200 /\ hreq'[q].served # ""
StoreWritable(q) == creq'[q].pc = "put"

\* the owner authorization on the requests of the given tokens
OwnerAuthorization(tokens) ==
    \A q \in CloudReqs :
        LET req == hreq'[q].req
        IN  (/\ Handled(q)
             /\ req.auth \in tokens
             /\ creq'[q].status # 401
             /\ req.organization_id # "" \/ req.team_id # "") =>
               IF req.organization_id # "" /\ req.team_id # ""
               THEN creq'[q].status = 400 /\ ~StoreGiven(q) /\ ~StoreWritable(q)
               ELSE /\ StoreGiven(q) => AtLeast(MembershipRole(req), "reader")
                    /\ StoreWritable(q) => AtLeast(MembershipRole(req), "maintainer")
                    /\ ~StoreGiven(q) /\ ~StoreWritable(q) =>
                          /\ creq'[q].status = 403
                          /\ <<memData, pgTable>>' = <<memData, pgTable>>

\* C23: for every authenticated principal (PAT, development token or OIDC) and
\* every request naming an organization_id or team_id, the store is read only
\* if the principal has a membership on it with role >= reader and written
\* only if the role is >= maintainer; otherwise the request is rejected with
\* 403 and the store is neither returned nor changed; naming both is rejected
\* with 400.
C23_OwnerAuthorization ==
    [][OwnerAuthorization(OwnerTokens)]_vars

\* the personal access token a request bears, "" when it bears none
TokenBorne(req) ==
    IF \E id \in TokenIDs : rawTokenOf(id) = req.auth
    THEN CHOOSE id \in TokenIDs : rawTokenOf(id) = req.auth
    ELSE ""

\* the scope an endpoint asks for, "" when it asks for none
RequiredScope(req) ==
    CASE req.path = "/v1/store" /\ req.method = "GET" -> "store:read"
      [] req.path = "/v1/store" /\ req.method = "PUT" -> "store:write"
      [] req.path \in {"/v1/tokens", "/v1/tokens/"} -> "tokens:write"
      [] OTHER -> ""

\* request q, just taken up, bears a valid PAT that lacks the required scope
LacksScope(q) ==
    LET req == hreq'[q].req
        id == TokenBorne(req)
    IN  /\ Handled(q)
        /\ id # ""
        /\ db.tokens[id].exists /\ ~db.tokens[id].revoked /\ ~db.tokens[id].expired
        /\ RequiredScope(req) # ""
        /\ "*" \notin db.tokens[id].scopes
        /\ RequiredScope(req) \notin db.tokens[id].scopes

\* the token rows without their last_used_at
TokenFacts(dbv) == [id \in TokenIDs |-> [dbv.tokens[id] EXCEPT !.used = FALSE]]

\* nothing of the store is returned or changed, no token issued or revoked
NothingDone(q) ==
    /\ creq'[q].pc = "done"
    /\ hreq'[q].served = "" /\ hreq'[q].issued = ""
    /\ <<memData, pgTable>>' = <<memData, pgTable>>
    /\ TokenFacts(db') = TokenFacts(db)

\* the owner parameters or the project name of a store request are refused
\* before the scope is looked at
RefusedEarlier(req) ==
    /\ req.path = "/v1/store"
    /\ \/ req.organization_id # "" /\ req.team_id # ""
       \/ req.project \notin CloudProjects

MeServed(q) ==
    LET req == hreq'[q].req
        id == TokenBorne(req)
    IN  (/\ Handled(q) /\ req.path = "/v1/me" /\ req.method = "GET"
         /\ id # "" /\ db.tokens[id].exists /\ ~db.tokens[id].revoked) =>
            creq'[q].status = 200

\* C24 as stated: a request authenticated with a PAT whose scopes contain
\* neither '*' nor the required scope (store:read for GET /v1/store,
\* store:write for PUT /v1/store, tokens:write for /v1/tokens) is rejected
\* with 403 before any store or token is read or changed; /v1/me asks for no
\* scope.
C24_ScopeRejected403 ==
    [][\A q \in CloudReqs :
          /\ LacksScope(q) => creq'[q].status = 403 /\ NothingDone(q)
          /\ MeServed(q)]_vars

\* C24 amended: such a request is rejected before any store is read or
\* changed and before any token is issued or revoked, with 403, or with 400
\* when handleStore has refused its owner parameters or its project name
\* first; /v1/me asks for no scope.
C24_ScopeEnforcement ==
    [][\A q \in CloudReqs :
          /\ LacksScope(q) =>
                /\ NothingDone(q)
                /\ \/ creq'[q].status = 403
                   \/ creq'[q].status = 400 /\ RefusedEarlier(hreq'[q].req)
          /\ MeServed(q)]_vars

\* a PUT /v1/store bearing a token whose only scope is store:read was
\* answered 403
C24_Witness ==
    /\ creq["q1"].pc = "done" /\ creq["q1"].status = 403
    /\ hreq["q1"].req.method = "PUT" /\ hreq["q1"].req.path = "/v1/store"
    /\ hreq["q1"].req.auth = rawTokenOf("k1")
    /\ db.tokens["k1"].scopes = {"store:read"}

\* a request bearing a revoked token is answered 401 'token is revoked' and
\* changes no store
RevokedIsRejected ==
    \A q \in CloudReqs :
        LET id == TokenBorne(hreq'[q].req)
        IN  (Handled(q) /\ id # "" /\ db.tokens[id].revoked) =>
               /\ creq'[q].status = 401
               /\ hreq'[q].message = "token is revoked"
               /\ NothingDone(q)

\* a revoked token stays revoked, and a token is revoked only by a DELETE of
\* the user who owns it, answered 204
RevokedByOwnerForGood ==
    \A id \in TokenIDs :
        /\ db.tokens[id].revoked => db'.tokens[id].revoked
        /\ ~db.tokens[id].revoked /\ db'.tokens[id].revoked =>
              \E q \in CloudReqs :
                  /\ Handled(q)
                  /\ hreq'[q].req.method = "DELETE" /\ hreq'[q].req.tokenID = id
                  /\ creq'[q].status = 204
                  /\ UserOfToken(hreq'[q].req.auth) = db.tokens[id].user_id

\* a DELETE that names an existing token which is revoked or another user's
DeleteOfRevokedOrForeign(q) ==
    LET req == hreq'[q].req
    IN  /\ Handled(q)
        /\ req.method = "DELETE" /\ req.path = "/v1/tokens/"
        /\ creq'[q].status \notin {401, 403}
        /\ req.tokenID \in TokenIDs /\ db.tokens[req.tokenID].exists
        /\ \/ db.tokens[req.tokenID].revoked
           \/ db.tokens[req.tokenID].user_id # UserOfToken(req.auth)

\* C25: once DELETE /v1/tokens/:id has returned 204 for a token, every later
\* request bearing that raw token is rejected with 401 'token is revoked' (it
\* never falls through to dev-token or OIDC authentication) and changes no
\* store; a token can only be revoked by the user who owns it, and revoking an
\* already revoked or foreign token returns 404.
C25_Revocation ==
    [][/\ RevokedIsRejected
       /\ RevokedByOwnerForGood
       /\ \A q \in CloudReqs :
             DeleteOfRevokedOrForeign(q) =>
                 creq'[q].status = 404 /\ TokenFacts(db') = TokenFacts(db)]_vars

RECURSIVE AdmittedIn(_, _, _)
\* the requests of ip admitted at the times from..to
AdmittedIn(ip, from, to) ==
    IF from > to THEN 0
    ELSE limiter.admitted[ip][from] + AdmittedIn(ip, from + 1, to)

\* C26: with a limit configured (rpm > 0), for every client IP and every
\* 60-second interval the number of admitted non-/healthz requests is at most
\* rpm + burst; a request beyond that is answered 429 and does not reach the
\* handler; /healthz is never limited; the IPs are counted independently.
C26_SlidingWindow ==
    /\ \A ip \in ClientIPs : \A t \in Times :
          t + Minute - 1 <= MaxClock =>
              AdmittedIn(ip, t, t + Minute - 1) <= limiter.rpm + limiter.burst
    /\ limiter.last.path = "/healthz" => limiter.last.status = 200
    /\ limiter.last.status = 429 =>
          \E t \in Times : t <= limiter.last.at /\ limiter.last.at - t < Minute
                /\ AdmittedIn(limiter.last.ip, t, limiter.last.at)
                      >= limiter.rpm + limiter.burst

\* the request carries the credentials the auth mode asks for
TokenGiven(s, r) == r.Authorization = Bearer(s.token)
HeaderGiven(s, r) ==
    /\ r.Header[s.authHeader] # ""
    /\ r.Header["X-Envsync-Proxy-Secret"] = s.authProxySecret
Authorized(s, r) ==
    \/ s.authMode = "off"
    \/ s.authMode = "token" /\ TokenGiven(s, r)
    \/ s.authMode = "header" /\ HeaderGiven(s, r)
    \/ s.authMode = "token_or_header" /\ (TokenGiven(s, r) \/ HeaderGiven(s, r))

\* C27: a /v1/store request is served iff it is authorized for the server's
\* auth mode (token: Authorization is 'Bearer <token>'; header: the proxy
\* header is non-empty and the proxy-secret header is the configured secret;
\* token_or_header: either; off: always); every other request gets 401,
\* returns nothing of the store and leaves the store as it was.
C27_AuthModes ==
    [][/\ authz'.resp.served <=> Authorized(authz', authz'.req)
       /\ ~authz'.resp.served =>
             /\ authz'.resp.status = 401
             /\ authz'.resp.body = NoServerResponse.body
             /\ srvStore' = srvStore /\ srvDisk' = srvDisk]_vars

\* the entries of a Go map, none for nil
Entries(mp) == IF mp.nil THEN EmptyMap ELSE mp.m

\* every container of the state is non-nil, down to the Vars of every env
ContainersMade(st) ==
    /\ ~st.ProjectBindings.nil /\ ~st.Teams.nil /\ ~st.Projects.nil
    /\ \A t \in DOMAIN st.Teams.m : ~st.Teams.m[t].nil => ~st.Teams.m[t].Members.nil
    /\ \A p \in DOMAIN st.Projects.m : ~st.Projects.m[p].nil =>
          /\ ~st.Projects.m[p].Envs.nil
          /\ \A e \in DOMAIN st.Projects.m[p].Envs.m :
                ~st.Projects.m[p].Envs.m[e].nil => ~st.Projects.m[p].Envs.m[e].Vars.nil

SameEnv(a, b) ==
    /\ a.nil = b.nil /\ a.Name = b.Name /\ Entries(a.Vars) = Entries(b.Vars)
SameProject(a, b) ==
    /\ a.nil = b.nil /\ a.Name = b.Name /\ a.Team = b.Team
    /\ DOMAIN Entries(a.Envs) = DOMAIN Entries(b.Envs)
    /\ \A e \in DOMAIN Entries(a.Envs) : SameEnv(Entries(a.Envs)[e], Entries(b.Envs)[e])
SameTeam(a, b) ==
    /\ a.nil = b.nil /\ a.Name = b.Name /\ Entries(a.Members) = Entries(b.Members)

\* b is a but for Version, an empty CurrentEnv and nil containers
NothingElseChanged(a, b) ==
    /\ a.DeviceID = b.DeviceID /\ a.SaltB64 = b.SaltB64 /\ a.KeyCheckB64 = b.KeyCheckB64
    /\ a.CurrentTeam = b.CurrentTeam /\ a.CurrentProject = b.CurrentProject
    /\ a.CurrentEnv # "" => b.CurrentEnv = a.CurrentEnv
    /\ Entries(a.ProjectBindings) = Entries(b.ProjectBindings)
    /\ DOMAIN Entries(a.Teams) = DOMAIN Entries(b.Teams)
    /\ \A t \in DOMAIN Entries(a.Teams) : SameTeam(Entries(a.Teams)[t], Entries(b.Teams)[t])
    /\ DOMAIN Entries(a.Projects) = DOMAIN Entries(b.Projects)
    /\ \A p \in DOMAIN Entries(a.Projects) :
          SameProject(Entries(a.Projects)[p], Entries(b.Projects)[p])

\* C28: a state file of version <= 2 (missing, 0 and negative included) loads
\* as Version 2 with CurrentEnv 'dev' when it was empty and every container
\* non-nil; nothing else is changed; applying the migration again reports no
\* change; a version above 2 is left as it is.
C28_StateMigration ==
    mig.applied >= 1 =>
        /\ mig.disk.Version <= 2 =>
              /\ mig.state.Version = 2
              /\ mig.state.CurrentEnv # ""
              /\ mig.disk.CurrentEnv = "" => mig.state.CurrentEnv = "dev"
              /\ ContainersMade(mig.state)
        /\ mig.disk.Version > 2 => mig.state.Version = mig.disk.Version
        /\ NothingElseChanged(mig.disk, mig.state)
        /\ mig.applied = 2 => ~mig.changed /\ mig.state = mig.before

C28_Witness ==
    /\ mig.applied = 2
    /\ mig.disk.Version = 0 /\ mig.disk.CurrentEnv = ""
    /\ mig.disk.Teams.nil /\ mig.disk.ProjectBindings.nil
    /\ "api" \in DOMAIN mig.disk.Projects.m
    /\ ~mig.disk.Projects.m["api"].nil
    /\ "dev" \in DOMAIN mig.disk.Projects.m["api"].Envs.m
    /\ ~mig.disk.Projects.m["api"].Envs.m["dev"].nil
    /\ mig.disk.Projects.m["api"].Envs.m["dev"].Vars.nil
    /\ mig.state.Version = 2 /\ mig.state.CurrentEnv = "dev"
    /\ ~mig.state.Projects.m["api"].Envs.m["dev"].Vars.nil

\* C29: at every instant state.json holds the complete serialization of a
\* State that was passed to saveState (or written by init), also while two
\* commands of the device save concurrently through the same temp file.
C29_NoTornState ==
    \E st \in sfile.passed : sfile.inode[sfile.StatePath] = MarshalIndent(st)

\* a process is inside withExclusiveFileLock: its save's read-modify-write
\* is in progress
SaveInProgress == flock # ""

\* C30: every operation on the file remote holds the exclusive lock on
\* <path>.lock, Load as well as Save: no loadRemoteStore reads the file while
\* a save's read-modify-write is in progress.
C30_LoadUnderLock ==
    [][\A p \in Procs :
          (proc[p].pc = "idle" /\ proc'[p].pc = "loaded") => ~SaveInProgress]_vars

\* the bucket the claim describes for key k after the first n requests the
\* middleware saw: full until the first /v1/store request of k, refilled by
\* ratePerSec per tick up to the capacity, one token less per admission;
\* ok tells whether the n-th request is to be admitted
RECURSIVE TokenBucket(_, _)
TokenBucket(k, n) ==
    IF n = 0 THEN [tokens |-> srvLimiter.capacity, last |-> 0, ok |-> TRUE]
    ELSE LET b == TokenBucket(k, n - 1)
             e == srvLimiter.log[n]
             filled == Min(srvLimiter.capacity,
                           b.tokens + (e.at - b.last) * srvLimiter.ratePerSec)
         IN  IF e.key # k \/ e.path # "/v1/store" \/ ~enabled(srvLimiter)
             THEN [b EXCEPT !.ok = TRUE]
             ELSE IF filled >= TokenUnits
             THEN [tokens |-> filled - TokenUnits, last |-> e.at, ok |-> TRUE]
             ELSE [tokens |-> filled, last |-> e.at, ok |-> FALSE]

\* C31: every bucket holds between 0 and capacity tokens; a request is
\* admitted iff it is not to /v1/store, or the limiter is disabled (rpm = 0),
\* or the bucket of its IP, refilled at rpm/60 tokens per second up to the
\* capacity max(1, burst), holds at least one token; an admission takes
\* exactly one token; the first request of an IP is admitted.
C31_TokenBucket ==
    /\ \A k \in ServerKeys :
          /\ srvLimiter.buckets[k].tokens >= 0
          /\ srvLimiter.buckets[k].tokens <= srvLimiter.capacity
          /\ srvLimiter.buckets[k].seen =>
                srvLimiter.buckets[k].tokens = TokenBucket(k, Len(srvLimiter.log)).tokens
    /\ \A n \in 1..Len(srvLimiter.log) :
          /\ srvLimiter.log[n].admitted = TokenBucket(srvLimiter.log[n].key, n).ok
          /\ (\A i \in 1..(n - 1) : srvLimiter.log[i].key # srvLimiter.log[n].key)
                => srvLimiter.log[n].admitted
    /\ srvLimiter.capacity \in {TokenUnits, 2 * TokenUnits}

\* a bucket was swept, its client came back and was refused later, and a
\* client was admitted on a partly refilled bucket
C31_Witness ==
    /\ srvLimiter.swept
    /\ Len(srvLimiter.log) = MaxRequests
    /\ \E i, j \in 1..MaxRequests :
          /\ i < j
          /\ srvLimiter.log[i].key = srvLimiter.log[j].key
          /\ srvLimiter.log[i].path = "/v1/store" /\ srvLimiter.log[j].path = "/v1/store"
          /\ ~srvLimiter.log[i].admitted /\ srvLimiter.log[j].admitted

\* the event numbers a file holds
EventsIn(f) == {f.lines[i].event : i \in 1..Len(f.lines)}
AuditLimit == IF audit.AuditMaxFiles > 1 THEN audit.AuditMaxFiles ELSE 1

\* the rotated files are among .1..N, a file holds newer events than every
\* file of a higher number, and audit.log fits in AuditMaxBytes
AuditInOrder ==
    /\ \A i \in RotatedNames : audit.rotated[i].exists => i <= AuditLimit
    /\ \A i, j \in RotatedNames :
          i < j /\ audit.rotated[i].exists /\ audit.rotated[j].exists =>
              \A x \in EventsIn(audit.rotated[i]), y \in EventsIn(audit.rotated[j]) : x > y
    /\ \A i \in RotatedNames : audit.rotated[i].exists =>
          \A x \in EventsIn(audit.log), y \in EventsIn(audit.rotated[i]) : x > y
    /\ SizeOf(audit.log.lines) <= audit.AuditMaxBytes

C33_SaveAllOrNothing ==
    [](retry.status = "err" => srvStore = retry.before)

\* C34: a PUT /v1/store answered with another status than 200 (400, 401, 409,
\* 429 or 500) leaves the in-memory store and its revision as they were
\* before the request, and equal to the store on disk.
C34_PutLeavesStore ==
    [][(Len(srvLimiter'.log) = Len(srvLimiter.log) + 1
        /\ authz'.req.method = "PUT"
        /\ authz'.resp.status # 200)
       => (srvStore' = srvStore /\ srvStore' = srvDisk')]_vars

\* C38: the creator of a team is its admin, and whatever members the admins
\* add and remove, every team keeps at least one admin.
C38_AdminRetained ==
    \A d \in Devices : \A t \in DOMAIN state[d].Teams :
        \E m \in DOMAIN state[d].Teams[t] : state[d].Teams[t][m] = roleAdmin

\* the selection of a state names things that exist
SelectionConsistent(st) ==
    /\ st.CurrentProject # "" => st.CurrentProject \in DOMAIN st.Projects
    /\ \A c \in DOMAIN st.ProjectBindings : st.ProjectBindings[c] \in DOMAIN st.Projects
    /\ st.CurrentProject \in DOMAIN st.Projects
          => st.CurrentEnv \in DOMAIN st.Projects[st.CurrentProject].Envs

\* C37: a non-empty CurrentProject and every ProjectBindings entry name an
\* existing project, CurrentEnv names an environment of the current project,
\* and no command but env create and project create adds an environment.
C37_SelectionConsistent ==
    /\ [](\A d \in Devices : SelectionConsistent(state[d]))
    /\ [][\A d \in Devices : \A p \in DOMAIN state'[d].Projects :
             LET before == IF p \in DOMAIN state[d].Projects
                           THEN DOMAIN state[d].Projects[p].Envs ELSE {}
             IN  DOMAIN state'[d].Projects[p].Envs \subseteq before
                 \/ result'.op \in {"env create", "project create"}]_vars

\* C36: on every device, every project with a non-empty owning Team names a
\* team present in the device's teams map.
C36_TeamsExist ==
    \A d \in Devices : \A p \in DOMAIN state[d].Projects :
        state[d].Projects[p].Team # "" => state[d].Projects[p].Team \in DOMAIN state[d].Teams

\* projects after differ from projects before in environment envName of
\* project projName at most
OnlyEnvChanged(before, after, projName, envName) ==
    /\ DOMAIN after \subseteq (DOMAIN before) \cup {projName}
    /\ \A p \in DOMAIN before :
          /\ p \in DOMAIN after
          /\ after[p].Team = before[p].Team
          /\ DOMAIN after[p].Envs \subseteq (DOMAIN before[p].Envs)
                                              \cup (IF p = projName THEN {envName} ELSE {})
          /\ \A e \in DOMAIN before[p].Envs :
                /\ e \in DOMAIN after[p].Envs
                /\ (p # projName \/ e # envName) => after[p].Envs[e] = before[p].Envs[e]

\* C35: a successful Push changes on the remote only the current project's
\* current environment, the teams map, salt and key-check and the revision;
\* a successful Pull changes on the device only the current project's current
\* environment and the teams map: other projects and environments, the
\* selection and the bindings stay as they were.
C35_SyncFrame ==
    [][\A d \in Devices :
          /\ (result'.op = "push" /\ result'.err = "" /\ result'.dev = d)
                => /\ OnlyEnvChanged(remote.Projects, remote'.Projects,
                                     state[d].CurrentProject, state[d].CurrentEnv)
                   /\ remote'.Version = remote.Version
          /\ (result'.op = "pull" /\ result'.err = "" /\ result'.dev = d)
                => /\ OnlyEnvChanged(state[d].Projects, state'[d].Projects,
                                     state[d].CurrentProject, state[d].CurrentEnv)
                   /\ DOMAIN state'[d].Projects = DOMAIN state[d].Projects
                   /\ state'[d].CurrentTeam = state[d].CurrentTeam
                   /\ state'[d].CurrentProject = state[d].CurrentProject
                   /\ state'[d].CurrentEnv = state[d].CurrentEnv
                   /\ state'[d].ProjectBindings = state[d].ProjectBindings
                   /\ state'[d].SaltB64 = state[d].SaltB64
                   /\ state'[d].KeyCheckB64 = state[d].KeyCheckB64
                   /\ remote' = remote
                   /\ \A o \in Devices \ {d} : state'[o] = state[o]]_vars

C35_Witness ==
    /\ result.op = "pull" /\ result.err = "" /\ result.dev = "d2"
    /\ state["d2"].CurrentProject = "web" /\ state["d2"].CurrentEnv = defaultEnv
    /\ "K1" \in DOMAIN state["d2"].Projects["web"].Envs[defaultEnv].Vars
    /\ state["d2"].Teams # EmptyMap
    /\ state["d2"].ProjectBindings # EmptyMap
    /\ DOMAIN remote.Projects = ProjectNames

\* the owner key the request of q addresses
AddressedOwner(q) ==
    LET req == hreq[q].req
    IN  {resolveOwner(authenticate(db, hasDB, req.auth).p,
                      req.organization_id, req.team_id, req.method).ownerID :
            hasDB \in BOOLEAN}

\* C39: snapshots are kept per (owner key, normalized project): a PUT changes
\* the revision and payload of the pair it addresses and of no other, and two
\* distinct pairs never address the same snapshot, so a request is served the
\* snapshot of its own pair or none.
C39_VaultIsolation ==
    /\ [](\A q \in CloudReqs :
             hreq[q].served \notin {"", "none"} => hreq[q].served \in AddressedOwner(q))
    /\ [](\A o1 \in VaultOwners, o2 \in VaultOwners, p1 \in CloudProjects, p2 \in CloudProjects :
             <<o1, p1>> # <<o2, p2>> => /\ memKey(o1, p1) # memKey(o2, p2)
                                        /\ pgKey(o1, p1) # pgKey(o2, p2))
    /\ [][/\ \A key \in DOMAIN pgTable :
                pgTable'[key] # pgTable[key]
                   => \E q \in CloudReqs : key = pgKey(creq[q].owner, creq[q].project)
          /\ \A key \in DOMAIN memData :
                memData'[key] # memData[key]
                   => \E q \in CloudReqs : key = memKey(creq[q].owner, creq[q].project)]_vars
====
